---- MODULE Spec2Model ----
(***************************************************************************)
(* Session lifecycle engine of session-service: the SessionService         *)
(* operations over the Redis fast store and the SQLite ledger.             *)
(*                                                                         *)
(* The clock counts whole seconds, as now.Unix() reads it: calls that fall  *)
(* within one second read the same value.  The part of time.Now() below    *)
(* the second reaches only created_at and expires_at of the ledger, which  *)
(* no operation reads back.  Every engine call is one atomic step of the   *)
(* sequential specifications; SpecC interleaves the store accesses of      *)
(* overlapping calls.                                                      *)
(***************************************************************************)
EXTENDS Integers, Sequences, FiniteSets, TLC

\* ------------------------------------------------------------- bounds
\* Users in the users table, session ids uuid.NewString can return, seconds
\* the clock runs, and the session lifetime in seconds (3600 as configured,
\* scaled down so that sessions expire within MaxTick).
NumUsers == 2
MaxSID == 3
MaxTick == 1
SessionTTLSeconds == 1
\* Times the worker is handed one task (delivery is at least once).
MaxDeliveries == 2
\* login:audit tasks enqueued before logins stop.
MaxAuditTasks == 2
\* Callers whose calls may overlap.
NumProcs == 2

\* ---------------------------------------------------- configuration
\* cfg.MaxSessionsPerUser, at its default.
MaxSessionsPerUser == 2

UserIDs == 1..NumUsers
SessionIDs == 1..MaxSID
\* The empty session id "" of a failed login, and an identifier no login
\* ever generated ("missing-sid").
NoSID == 0
MissingSID == MaxSID + 1
NoUser == 0
NULL == <<>>

\* Callers, and a caller that is in no call.
Procs == 1..NumProcs
Idle == [op |-> "idle", pc |-> "idle", uid |-> NoUser, sid |-> NoSID, old |-> NoSID,
         todo |-> <<>>]
\* No HTTP exchange has taken place.
NoResponse == [status |-> 0, error |-> "", handler |-> "", userID |-> NoUser,
               sessionID |-> NoSID, sessions |-> <<>>]

\* users table rows as signup left them: username, password, hash.
UsernameOf(id) == <<"user", id>>
PasswordOf(id) == <<"pw", id>>
UnknownUsername == <<"user", NoUser>>
WrongPassword == <<"pw", NoUser>>
Usernames == {UsernameOf(id) : id \in UserIDs} \cup {UnknownUsername}
Passwords == {PasswordOf(id) : id \in UserIDs} \cup {WrongPassword}
bcryptGenerate(password) == <<"bcrypt", password>>
CompareHashAndPassword(hash, password) == hash = bcryptGenerate(password)

LoginMetas == {[IP |-> "127.0.0.1", UserAgent |-> "test-agent"]}

VARIABLES
    users,         \* durable: users table, id -> row
    sessions,      \* durable: sessions table (ledger), id -> row
    login_events,  \* durable: login_events table, sequence of rows
    sess,          \* Redis: sess:{sid} hashes with their expiry
    user_sess,     \* Redis: user_sess:{uid} sorted sets
    banned_user,   \* Redis: banned_user:{uid} keys present
    asynqClient,   \* whether the service holds an Asynq client (nil in tests)
    expireTasks,   \* Asynq: scheduled session:expire tasks
    auditTasks,    \* Asynq: pending login:audit tasks
    now,           \* the clock: the current Unix second
    issued,        \* session ids generated so far
    streak,        \* consecutive successful logins of one user since an empty index
    banHistory,    \* per user: BanUser returned and is in force, or UnbanUser just lifted it
    expireRuns,    \* session id -> times the session:expire handler returned nil for its task
    auditRuns,     \* position in auditTasks -> times the login:audit handler returned nil for it
    indexed,       \* session ids a login has written to an index
    procs,         \* callers in flight: each one's call, position and locals
    adminAPIKey,   \* configuration: ADMIN_API_KEY
    maxSessionsPerUser,  \* configuration: MAX_SESSIONS_PER_USER
    response       \* the last HTTP exchange: status, error body, handler reached

durable == <<users, sessions, login_events>>
redis == <<sess, user_sess, banned_user>>
asynq == <<asynqClient, expireTasks, auditTasks>>
deliveries == <<expireRuns, auditRuns>>
concurrent == <<procs>>
http == <<adminAPIKey, maxSessionsPerUser, response>>
vars == <<users, sessions, login_events, sess, user_sess, banned_user,
          asynqClient, expireTasks, auditTasks, now, issued, streak, banHistory,
          expireRuns, auditRuns, indexed, procs, adminAPIKey, maxSessionsPerUser, response>>

\* ------------------------------------------------------------- helpers
Range(s) == {s[i] : i \in 1..Len(s)}

Digit(d) == <<"0", "1", "2", "3", "4", "5", "6", "7", "8", "9">>[d + 1]

RECURSIVE stringFromInt64(_)
stringFromInt64(v) ==
    IF v < 10 THEN <<Digit(v)>> ELSE stringFromInt64(v \div 10) \o <<Digit(v % 10)>>

SessionTTL == SessionTTLSeconds

\* Store-access failures: at most one access of a call fails.
NoFailure == [at |-> "none", member |-> NoSID]
Fail(at) == [at |-> at, member |-> NoSID]

\* ------------------------------------------------ Redis commands used
\* A sess:{sid} key holds the hash fields and the key's expiry (Unix second).
EmptyHash == <<>>
HGetAll(keys, sid) == IF sid \in DOMAIN keys THEN keys[sid].fields ELSE EmptyHash
DelNothing(keys, sid) == keys
Del(keys, sid) == [k \in (DOMAIN keys) \ {sid} |-> keys[k]]

\* A sorted set is a set of [member, score]; a member occurs once.
ZRemNothing(z, member) == z
ZRem(z, member) == {e \in z : e.member # member}
ZAddNothing(z, score, member) == z
ZAdd(z, score, member) ==
    {e \in z : e.member # member} \cup {[member |-> member, score |-> score]}
ZCard(z) == Cardinality(z)
\* Redis orders a sorted set by score, then by member.
ZLess(a, b) == a.score < b.score \/ (a.score = b.score /\ a.member < b.member)
\* The entry that sorts last, in place of the first.
ZLast(z) == CHOOSE e \in z : \A o \in z \ {e} : ZLess(o, e)
ZFirst(z) == CHOOSE e \in z : \A o \in z \ {e} : ZLess(e, o)
RECURSIVE ZRangeAll(_)
ZRangeAll(z) ==
    IF z = {} THEN <<>> ELSE <<ZFirst(z).member>> \o ZRangeAll(z \ {ZFirst(z)})
\* ZRANGE key 0 0
ZRange00(z) == IF z = {} THEN <<>> ELSE <<ZFirst(z).member>>

\* Redis drops a key once its expiry second is reached.
ExpireNever(keys, t) == keys
Expire(keys, t) == [k \in {x \in DOMAIN keys : keys[x].expireAt > t} |-> keys[k]]

\* --------------------------------------------------- sqlc queries used
\* GetUserByUsername: the rows with that username, each with its is_banned.
UserRow(id, isBanned) ==
    [id |-> id, username |-> users[id].username,
     password_hash |-> users[id].password_hash, is_banned |-> isBanned]
q_GetUserByUsernameNoBan(username) ==
    {UserRow(id, FALSE) : id \in {k \in UserIDs : users[k].username = username}}
q_GetUserByUsername(username) ==
    {UserRow(id, users[id].is_banned) : id \in {k \in UserIDs : users[k].username = username}}

q_CreateSession(tbl, id, userID, createdAt, expiresAt) ==
    [k \in (DOMAIN tbl) \cup {id} |->
        IF k = id
        THEN [user_id |-> userID, created_at |-> createdAt, expires_at |-> expiresAt,
              revoked_at |-> NULL, revoked_by |-> NULL]
        ELSE tbl[k]]

q_RevokeSessionAlways(tbl, id, revokedBy, t) ==
    IF id \in DOMAIN tbl
    THEN [tbl EXCEPT ![id].revoked_at = <<t>>, ![id].revoked_by = <<revokedBy>>]
    ELSE tbl
q_RevokeSession(tbl, id, revokedBy, t) ==
    IF id \in DOMAIN tbl /\ tbl[id].revoked_at = NULL
    THEN [tbl EXCEPT ![id].revoked_at = <<t>>, ![id].revoked_by = <<revokedBy>>]
    ELSE tbl

q_BanUser(tbl, id) == [k \in DOMAIN tbl |-> IF k = id THEN [tbl[k] EXCEPT !.is_banned = TRUE] ELSE tbl[k]]
q_UnbanUserNothing(tbl, id) == tbl
q_UnbanUser(tbl, id) == [k \in DOMAIN tbl |-> IF k = id THEN [tbl[k] EXCEPT !.is_banned = FALSE] ELSE tbl[k]]

\* ------------------------------------------------------ SessionService
\* The stores an engine call reads and writes, as one value.
Stores == [sess |-> sess, user_sess |-> user_sess, sessions |-> sessions]

Return(err, user, sessionID, expiresAt, st) ==
    [err |-> err, user |-> user, sessionID |-> sessionID, expiresAt |-> expiresAt, st |-> st]

\* Login step 1: GetUserByUsername; sql.ErrNoRows becomes ErrInvalidCredentials.
NoRowsAsNotFound == "ErrUserNotFound"
NoRowsError == "ErrInvalidCredentials"
NoUserRow == [id |-> NoUser]
LookupUser(username, f) ==
    LET rows == q_GetUserByUsername(username) IN
    IF f.at = "GetUserByUsername" THEN [err |-> "error", u |-> NoUserRow]
    ELSE IF rows = {} THEN [err |-> NoRowsError, u |-> NoUserRow]
    ELSE [err |-> "nil", u |-> CHOOSE u \in rows : TRUE]

\* The ban check of login: the durable flag first, then the Redis marker.
BanReason(u) ==
    IF u.is_banned THEN "banned_db"
    ELSE IF u.id \in banned_user THEN "banned_redis"
    ELSE "none"

\* Login: lookup, ban check, password check.
Authenticate(username, password, f) ==
    LET l == LookupUser(username, f) IN
    IF l.err = "error" THEN [err |-> "error", id |-> NoUser, reason |-> "none"]
    ELSE IF l.err # "nil" THEN [err |-> l.err, id |-> NoUser, reason |-> "user_not_found"]
    ELSE IF BanReason(l.u) # "none"
         THEN [err |-> "ErrUserBanned", id |-> l.u.id, reason |-> BanReason(l.u)]
    ELSE IF ~CompareHashAndPassword(l.u.password_hash, password)
         THEN [err |-> "ErrInvalidCredentials", id |-> l.u.id, reason |-> "wrong_password"]
    ELSE [err |-> "nil", id |-> l.u.id, reason |-> "ok"]

\* The early returns of login: the steps after the password check are reached
\* only by an authenticated call.
ReachesWhenUserFound(auth) == auth.id # NoUser
ReachesEnforcement(auth) == auth.err = "nil"

\* Login without its step 3.
EnforceNothing(st, uid, f, t) == [err |-> "nil", st |-> st]

\* The eviction of the lowest entry of an index: ZRANGE 0 0, DEL and ZREM in
\* one transaction whose error is dropped, then RevokeSession, its error dropped.
EvictOldest(st, uid, f, t) ==
    LET oldest == ZRange00(st.user_sess[uid]) IN
    IF Len(oldest) = 0 THEN [err |-> "nil", st |-> st]
    ELSE LET oldSID == oldest[1]
             st1 == IF f.at = "EvictExec" THEN st
                    ELSE [st EXCEPT !.sess = Del(@, oldSID),
                                    !.user_sess[uid] = ZRem(@, oldSID)]
             st2 == IF f.at = "EvictRevoke" THEN st1
                    ELSE [st1 EXCEPT !.sessions =
                              q_RevokeSession(@, oldSID, "system:limit", t)]
         IN [err |-> "nil", st |-> st2]

\* Step 3 entered whatever the configured maximum.
EnforceMaxSessionsAlways(st, uid, f, t) ==
    IF f.at = "ZCard" THEN [err |-> "error", st |-> st]
    ELSE IF ZCard(st.user_sess[uid]) < maxSessionsPerUser THEN [err |-> "nil", st |-> st]
    ELSE IF f.at = "ZRange" THEN [err |-> "error", st |-> st]
    ELSE EvictOldest(st, uid, f, t)

\* Login step 3: at or above the maximum, the lowest entry of the index is evicted.
EnforceMaxSessions(st, uid, f, t) ==
    IF maxSessionsPerUser <= 0 THEN [err |-> "nil", st |-> st]
    ELSE IF f.at = "ZCard" THEN [err |-> "error", st |-> st]
    ELSE IF ZCard(st.user_sess[uid]) < maxSessionsPerUser THEN [err |-> "nil", st |-> st]
    ELSE IF f.at = "ZRange" THEN [err |-> "error", st |-> st]
    ELSE EvictOldest(st, uid, f, t)

\* The hash written without the id of its user.
SessionHashNoOwner(uid, t, expiresAt, meta) ==
    [fields |-> [user_id |-> stringFromInt64(NoUser), created_at |-> t,
                 expires_at |-> expiresAt, ip |-> meta.IP,
                 user_agent |-> meta.UserAgent],
     expireAt |-> expiresAt]

\* Login step 5: the hash, its expiry and the index entry, in one transaction.
SessionHash(uid, t, expiresAt, meta) ==
    [fields |-> [user_id |-> stringFromInt64(uid), created_at |-> t,
                 expires_at |-> expiresAt, ip |-> meta.IP,
                 user_agent |-> meta.UserAgent],
     expireAt |-> expiresAt]

CreateRedisSession(st, uid, newSID, t, expiresAt, meta) ==
    [st EXCEPT !.sess = [k \in (DOMAIN @) \cup {newSID} |->
                            IF k = newSID THEN SessionHash(uid, t, expiresAt, meta)
                            ELSE @[k]],
               !.user_sess[uid] = ZAdd(@, t, newSID)]

\* Login steps 4 to 6 with the error of the Redis transaction dropped, and
\* with the Redis transaction undone when the ledger insert fails.
CreateSessionNoAbort(e, uid, meta, newSID, f, t) ==
    LET expiresAt == t + SessionTTL
        st1 == IF f.at = "CreateExec" THEN e.st
               ELSE CreateRedisSession(e.st, uid, newSID, t, expiresAt, meta)
    IN  IF e.err # "nil" THEN Return(e.err, NoUser, NoSID, 0, e.st)
        ELSE IF f.at = "CreateSession" THEN Return("error", NoUser, NoSID, 0, st1)
        ELSE Return("nil", uid, newSID, expiresAt,
                    [st1 EXCEPT !.sessions = q_CreateSession(@, newSID, uid, t, expiresAt)])
CreateSessionRollback(e, uid, meta, newSID, f, t) ==
    LET expiresAt == t + SessionTTL IN
    IF e.err # "nil" THEN Return(e.err, NoUser, NoSID, 0, e.st)
    ELSE IF f.at \in {"CreateExec", "CreateSession"} THEN Return("error", NoUser, NoSID, 0, e.st)
    ELSE Return("nil", uid, newSID, expiresAt,
                [CreateRedisSession(e.st, uid, newSID, t, expiresAt, meta) EXCEPT
                     !.sessions = q_CreateSession(@, newSID, uid, t, expiresAt)])

\* Login steps 4 to 6, after the enforcement step left e.
CreateSession(e, uid, meta, newSID, f, t) ==
    LET expiresAt == t + SessionTTL IN
    IF e.err # "nil" THEN Return(e.err, NoUser, NoSID, 0, e.st)
    ELSE IF f.at = "CreateExec" THEN Return("error", NoUser, NoSID, 0, e.st)
    ELSE LET st1 == CreateRedisSession(e.st, uid, newSID, t, expiresAt, meta) IN
         IF f.at = "CreateSession" THEN Return("error", NoUser, NoSID, 0, st1)
         ELSE Return("nil", uid, newSID, expiresAt,
                     [st1 EXCEPT !.sessions =
                          q_CreateSession(@, newSID, uid, t, expiresAt)])

\* What Login returns and the stores it leaves.
LoginResult(username, password, meta, newSID, f) ==
    LET auth == Authenticate(username, password, f)
        e == IF ReachesEnforcement(auth)
             THEN EnforceMaxSessions(Stores, auth.id, f, now)
             ELSE [err |-> "nil", st |-> Stores]
    IN  IF auth.err # "nil" THEN Return(auth.err, NoUser, NoSID, 0, e.st)
        ELSE CreateSession(e, auth.id, meta, newSID, f, now)

\* AuthHandler.Login: what the HTTP caller receives for a result of Login.
\* token.Manager: a JWT is its header, its claims and the HMAC of both under
\* the manager's secret.
JWTSecret == "test-secret"
ForeignSecret == "another-secret"
Sign(header, claims, secret) == <<"HMAC-SHA256", header, claims, secret>>
SignedString(claims, secret) ==
    LET header == [alg |-> "HS256", typ |-> "JWT"] IN
    <<header, claims, Sign(header, claims, secret)>>
\* Generate: no sid claim, expiry at the manager's ttl (cfg.SessionTTL).
Generate(userID) ==
    SignedString([sub |-> userID, iat |-> now, exp |-> now + SessionTTL], JWTSecret)
\* A token with the manager's ttl in place of the expiry it is given.
GenerateWithSessionTTL(userID, sessionID, expiresAt) ==
    SignedString([sub |-> userID, sid |-> sessionID, iat |-> now, exp |-> now + SessionTTL],
                 JWTSecret)
GenerateWithSession(userID, sessionID, expiresAt) ==
    SignedString([sub |-> userID, sid |-> sessionID, iat |-> now, exp |-> expiresAt],
                 JWTSecret)
\* Parse at the second t: three parts, HS256, the signature of this manager,
\* and t before exp.
NoClaims == [err |-> "error", UserID |-> NoUser, SessionID |-> NoSID]
ParseAt(tokenStr, t) ==
    IF Len(tokenStr) # 3 THEN NoClaims
    ELSE LET header == tokenStr[1]
             claims == tokenStr[2]
         IN  IF header.alg # "HS256" THEN NoClaims
             ELSE IF tokenStr[3] # Sign(header, claims, JWTSecret) THEN NoClaims
             ELSE IF ~(t < claims.exp) THEN NoClaims
             ELSE [err |-> "nil", UserID |-> claims.sub,
                   SessionID |-> IF "sid" \in DOMAIN claims THEN claims.sid ELSE NoSID]
Parse(tokenStr) == ParseAt(tokenStr, now)
LoginResponse(r) ==
    IF r.err = "nil"
    THEN [status |-> 200,
          body |-> [access_token |-> GenerateWithSession(r.user, r.sessionID, r.expiresAt),
                    expires_in |-> SessionTTL]]
    ELSE IF r.err = "ErrInvalidCredentials"
         THEN [status |-> 401, body |-> [error |-> "invalid credentials"]]
    ELSE [status |-> 500, body |-> [error |-> "login failed"]]

\* Whether the call generates a session id (uuid.NewString is reached).
GeneratesSID(username, password, f) ==
    LET auth == Authenticate(username, password, f) IN
    /\ auth.err = "nil"
    /\ EnforceMaxSessions(Stores, auth.id, f, now).err = "nil"

\* EnqueueLoginAudit / EnqueueSessionExpire: nothing without a client.
AuditPayload(auth, username, meta) ==
    [user_id |-> IF auth.id = NoUser THEN NULL ELSE <<auth.id>>, username |-> username,
     success |-> auth.err = "nil", reason |-> auth.reason,
     ip |-> meta.IP, user_agent |-> meta.UserAgent]

EnqueueLoginAudit(q, payload, f) ==
    IF ~asynqClient \/ f.at = "EnqueueLoginAudit" THEN q ELSE Append(q, payload)

EnqueueSessionExpire(q, sessionID, userID, processAt, f) ==
    IF ~asynqClient \/ f.at = "EnqueueSessionExpire" THEN q
    ELSE q \cup {[session_id |-> sessionID, user_id |-> userID, process_at |-> processAt]}

NoStreak == [user |-> NoUser, sids |-> <<>>]
\* "lifted" marks the state an UnbanUser call left; the next call settles it.
Settle(h) == [id \in DOMAIN h |-> IF h[id] = "lifted" THEN "none" ELSE h[id]]
Members(z) == {e.member : e \in z}

FreshSIDs == SessionIDs \ issued

Login(username, password, meta, newSID, f) ==
    LET auth == Authenticate(username, password, f)
        r == LoginResult(username, password, meta, newSID, f)
        gen == GeneratesSID(username, password, f)
    IN  /\ IF gen THEN newSID \in FreshSIDs ELSE newSID = NoSID
        /\ sess' = r.st.sess
        /\ user_sess' = r.st.user_sess
        /\ sessions' = r.st.sessions
        /\ issued' = IF gen THEN issued \cup {newSID} ELSE issued
        /\ expireTasks' = IF r.err = "nil"
                          THEN EnqueueSessionExpire(expireTasks, newSID, auth.id, r.expiresAt, f)
                          ELSE expireTasks
        /\ auditTasks' = IF auth.err = "error" \/ (auth.err = "nil" /\ r.err # "nil")
                         THEN auditTasks
                         ELSE EnqueueLoginAudit(auditTasks, AuditPayload(auth, username, meta), f)
        /\ streak' = IF r.err # "nil" THEN NoStreak
                     ELSE IF streak.user = auth.id
                          THEN [streak EXCEPT !.sids = Append(@, newSID)]
                     ELSE IF user_sess[auth.id] = {}
                          THEN [user |-> auth.id, sids |-> <<newSID>>]
                     ELSE NoStreak
        /\ banHistory' = Settle(banHistory)
        /\ indexed' = indexed \cup {s \in {newSID} : \E id \in UserIDs : s \in Members(r.st.user_sess[id])}
        /\ UNCHANGED <<users, login_events, banned_user, asynqClient, now, deliveries,
                       concurrent, http>>

\* Logout: DEL sess:{sid} and ZREM user_sess:{uid} sid in one transaction, then
\* RevokeSession, whose error is dropped.
\* The removal that gives up, and leaves the session in place, when the ledger
\* cannot be written.
RemoveSessionUndone(st, userID, sessionID, revokedBy, f, t) ==
    IF f.at \in {"Exec", "Revoke"} /\ f.member \in {NoSID, sessionID}
    THEN [err |-> "error", st |-> st]
    ELSE [err |-> "nil",
          st |-> [st EXCEPT !.sess = Del(@, sessionID),
                            !.user_sess[userID] = ZRem(@, sessionID),
                            !.sessions = q_RevokeSession(@, sessionID, revokedBy, t)]]

RemoveSession(st, userID, sessionID, revokedBy, f, t) ==
    IF f.at = "Exec" /\ f.member \in {NoSID, sessionID} THEN [err |-> "error", st |-> st]
    ELSE LET st1 == [st EXCEPT !.sess = Del(@, sessionID),
                               !.user_sess[userID] = ZRem(@, sessionID)]
         IN [err |-> "nil",
             st |-> IF f.at = "Revoke" THEN st1
                    ELSE [st1 EXCEPT !.sessions =
                              q_RevokeSession(@, sessionID, revokedBy, t)]]

LogoutResult(st, userID, sessionID, f, t) ==
    RemoveSession(st, userID, sessionID, "user", f, t)

Logout(userID, sessionID, f) ==
    LET r == LogoutResult(Stores, userID, sessionID, f, now) IN
    /\ sess' = r.st.sess
    /\ user_sess' = r.st.user_sess
    /\ sessions' = r.st.sessions
    /\ streak' = NoStreak
    /\ banHistory' = Settle(banHistory)
    /\ UNCHANGED <<users, login_events, banned_user, asynq, now, issued, deliveries,
                   indexed, concurrent, http>>

\* IsSessionValid without the comparison of user_id, and IsSessionValid that
\* also wants an unrevoked ledger row.
IsSessionValidAnyOwner(st, userID, sessionID, f) ==
    IF f.at = "HGetAll" THEN [ok |-> FALSE, err |-> "error"]
    ELSE [ok |-> DOMAIN HGetAll(st.sess, sessionID) # {}, err |-> "nil"]
IsSessionValidLedger(st, userID, sessionID, f) ==
    IF f.at = "HGetAll" THEN [ok |-> FALSE, err |-> "error"]
    ELSE [ok |-> /\ DOMAIN HGetAll(st.sess, sessionID) # {}
                 /\ HGetAll(st.sess, sessionID).user_id = stringFromInt64(userID)
                 /\ sessionID \in DOMAIN st.sessions
                 /\ st.sessions[sessionID].revoked_at = NULL,
          err |-> "nil"]

\* IsSessionValid: the hash exists and its user_id is the caller's.
IsSessionValidIn(st, userID, sessionID, f) ==
    IF f.at = "HGetAll" THEN [ok |-> FALSE, err |-> "error"]
    ELSE LET data == HGetAll(st.sess, sessionID) IN
         IF DOMAIN data = {} THEN [ok |-> FALSE, err |-> "nil"]
         ELSE IF /\ "user_id" \in DOMAIN data
                 /\ data.user_id # <<>>
                 /\ data.user_id # stringFromInt64(userID)
              THEN [ok |-> FALSE, err |-> "nil"]
         ELSE [ok |-> TRUE, err |-> "nil"]

IsSessionValid(userID, sessionID, f) == IsSessionValidIn(Stores, userID, sessionID, f)

\* KickSession: the transaction of Logout, revoked by admin:kick.
KickSessionResult(st, userID, sessionID, f, t) ==
    RemoveSession(st, userID, sessionID, "admin:kick", f, t)

KickSession(userID, sessionID, f) ==
    LET r == KickSessionResult(Stores, userID, sessionID, f, now) IN
    /\ sess' = r.st.sess
    /\ user_sess' = r.st.user_sess
    /\ sessions' = r.st.sessions
    /\ streak' = NoStreak
    /\ banHistory' = Settle(banHistory)
    /\ UNCHANGED <<users, login_events, banned_user, asynq, now, issued, deliveries,
                   indexed, concurrent, http>>

\* KickAllSessions: every member of the index is kicked; a failure is kept and
\* the remaining members are still kicked.
RECURSIVE KickEachUntilFailure(_, _, _, _, _)
KickEachUntilFailure(st, userID, sids, f, t) ==
    IF sids = <<>> THEN [err |-> "nil", st |-> st]
    ELSE LET r == KickSessionResult(st, userID, Head(sids), f, t) IN
         IF r.err # "nil" THEN r
         ELSE KickEachUntilFailure(r.st, userID, Tail(sids), f, t)

RECURSIVE KickEach(_, _, _, _, _)
KickEach(st, userID, sids, f, t) ==
    IF sids = <<>> THEN [err |-> "nil", st |-> st]
    ELSE LET r == KickSessionResult(st, userID, Head(sids), f, t)
             rest == KickEach(r.st, userID, Tail(sids), f, t)
         IN [err |-> IF r.err # "nil" THEN r.err ELSE rest.err, st |-> rest.st]

KickAllSessionsResult(st, userID, f, t) ==
    IF f.at = "ZRangeAll" THEN [err |-> "error", st |-> st]
    ELSE KickEach(st, userID, ZRangeAll(st.user_sess[userID]), f, t)

KickAllSessions(userID, f) ==
    LET r == KickAllSessionsResult(Stores, userID, f, now) IN
    /\ sess' = r.st.sess
    /\ user_sess' = r.st.user_sess
    /\ sessions' = r.st.sessions
    /\ streak' = NoStreak
    /\ banHistory' = Settle(banHistory)
    /\ UNCHANGED <<users, login_events, banned_user, asynq, now, issued, deliveries,
                   indexed, concurrent, http>>

\* BanUser: the durable flag, then the Redis marker, then KickAllSessions.
BanUser(userID, f) ==
    LET r == KickAllSessionsResult(Stores, userID, f, now)
        dbOK == f.at # "BanUser"
        setOK == dbOK /\ f.at # "Set"
        err == IF ~setOK THEN "error" ELSE r.err
    IN  /\ users' = IF dbOK THEN q_BanUser(users, userID) ELSE users
        /\ banned_user' = IF setOK THEN banned_user \cup {userID} ELSE banned_user
        /\ sess' = IF setOK THEN r.st.sess ELSE sess
        /\ user_sess' = IF setOK THEN r.st.user_sess ELSE user_sess
        /\ sessions' = IF setOK THEN r.st.sessions ELSE sessions
        /\ streak' = NoStreak
        /\ banHistory' = [Settle(banHistory) EXCEPT ![userID] = IF err = "nil" THEN "in force" ELSE @]
        /\ UNCHANGED <<login_events, asynq, now, issued, deliveries,
                       indexed, concurrent, http>>

\* UnbanUser: clear the durable flag, then delete the Redis marker.
UnbanUser(userID, f) ==
    LET dbOK == f.at # "UnbanUser"
        delOK == dbOK /\ f.at # "Del"
    IN  /\ UNCHANGED <<sessions, login_events, sess, user_sess, asynq, now, issued, deliveries,
                       indexed, concurrent, http>>
        /\ users' = IF dbOK THEN q_UnbanUser(users, userID) ELSE users
        /\ banned_user' = IF delOK THEN banned_user \ {userID} ELSE banned_user
        /\ streak' = NoStreak
        /\ banHistory' = [Settle(banHistory) EXCEPT ![userID] =
                              IF ~dbOK THEN @
                              ELSE IF banHistory[userID] = "in force" /\ delOK THEN "lifted"
                              ELSE "none"]

\* Time passes; Redis drops the hashes whose expiry second has come.
Tick ==
    /\ now < MaxTick
    /\ now' = now + 1
    /\ sess' = Expire(sess, now + 1)
    /\ UNCHANGED <<durable, user_sess, banned_user, asynq, issued, streak, banHistory, deliveries,
                   indexed, concurrent, http>>

\* -------------------------------------------------------------- worker
\* Times a handler has returned nil for the task k.
Runs(r, k) == IF k \in DOMAIN r THEN r[k] ELSE 0
Ran(r, k) == [x \in (DOMAIN r) \cup {k} |-> IF x = k THEN Runs(r, k) + 1 ELSE r[x]]

\* The session:expire handler without its check of the hash: it cleans up
\* whether or not the hash is still there.
SessionExpireNoCheck(st, p, f, t) ==
    [err |-> "nil",
     st |-> [st EXCEPT !.sess = Del(@, p.session_id),
                       !.user_sess[p.user_id] = ZRem(@, p.session_id),
                       !.sessions = q_RevokeSession(@, p.session_id, "system:expire", t)]]

\* The session:expire handler: nothing to do when the hash is gone; otherwise
\* DEL and ZREM in one transaction, then RevokeSession by system:expire.
SessionExpireResult(st, p, f, t) ==
    IF f.at = "HGetAll" THEN [err |-> "error", st |-> st]
    ELSE IF DOMAIN HGetAll(st.sess, p.session_id) = {} THEN [err |-> "nil", st |-> st]
    ELSE IF f.at = "Exec" THEN [err |-> "error", st |-> st]
    ELSE LET st1 == [st EXCEPT !.sess = Del(@, p.session_id),
                               !.user_sess[p.user_id] = ZRem(@, p.session_id)]
         IN IF f.at = "Revoke" THEN [err |-> "error", st |-> st1]
            ELSE [err |-> "nil",
                  st |-> [st1 EXCEPT !.sessions =
                              q_RevokeSession(@, p.session_id, "system:expire", t)]]

\* Asynq hands a scheduled task to the handler no sooner than its process_at,
\* and may hand it over again.
SessionExpireHandler(task, f) ==
    LET r == SessionExpireResult(Stores, task, f, now) IN
    /\ task \in expireTasks
    /\ task.process_at <= now
    /\ Runs(expireRuns, task.session_id) < MaxDeliveries
    /\ sess' = r.st.sess
    /\ user_sess' = r.st.user_sess
    /\ sessions' = r.st.sessions
    /\ expireRuns' = IF r.err = "nil" THEN Ran(expireRuns, task.session_id) ELSE expireRuns
    /\ UNCHANGED <<users, login_events, banned_user, asynq, now, issued, streak,
                   banHistory, auditRuns,
                   indexed, concurrent, http>>

\* An insert that replaces the rows of the table.
InsertLoginEventOverwrite(tbl, p, t) ==
    <<[user_id |-> p.user_id, username |-> p.username, success |-> p.success,
       reason |-> p.reason, ip |-> p.ip, user_agent |-> p.user_agent, created_at |-> t]>>

\* The login:audit handler: one INSERT INTO login_events.
InsertLoginEvent(tbl, p, t) ==
    Append(tbl, [user_id |-> p.user_id, username |-> p.username, success |-> p.success,
                 reason |-> p.reason, ip |-> p.ip, user_agent |-> p.user_agent,
                 created_at |-> t])

LoginAuditResult(tbl, p, f, t) ==
    IF f.at = "Insert" THEN [err |-> "error", tbl |-> tbl]
    ELSE [err |-> "nil", tbl |-> InsertLoginEvent(tbl, p, t)]

LoginAuditHandler(i, f) ==
    /\ i \in 1..Len(auditTasks)
    /\ Runs(auditRuns, i) < MaxDeliveries
    /\ LET r == LoginAuditResult(login_events, auditTasks[i], f, now) IN
       /\ login_events' = r.tbl
       /\ auditRuns' = IF r.err = "nil" THEN Ran(auditRuns, i) ELSE auditRuns
    /\ UNCHANGED <<users, sessions, redis, asynq, now, issued, streak, banHistory,
                   expireRuns,
                   indexed, concurrent, http>>

\* ------------------------------------------------- overlapping calls
\* Each store access of a call is one step; between two steps of one caller
\* the other callers may take theirs.  pc names the access a caller makes next.
At(p, op, pc) == procs[p].op = op /\ procs[p].pc = pc
Goto(p, pc) == procs' = [procs EXCEPT ![p].pc = pc]
Quiescent == \A p \in Procs : procs[p] = Idle
After(order, pc) ==
    LET i == CHOOSE k \in 1..Len(order) : order[k] = pc IN
    IF i = Len(order) THEN "done" ELSE order[i + 1]
\* The caller moves to pc, or returns when the call is done.
Proceed(p, pc) == procs' = [procs EXCEPT ![p] = IF pc = "done" THEN Idle ELSE [@ EXCEPT !.pc = pc]]

\* Login steps 5 to 8 in their order: the Redis transaction, the ledger
\* insert, the session:expire task, the login:audit task.
LoginOrderScheduleFirst == <<"schedule", "audit", "create", "ledger">>
LoginOrder == <<"create", "ledger", "schedule", "audit">>

LoginsInFlight == Cardinality({p \in Procs : procs[p].op = "login"})

\* Login step 1 and the first half of the ban check: the users row.
LoginLookup(p, id, meta) ==
    LET auth == [err |-> "ErrUserBanned", id |-> id, reason |-> "banned_db"] IN
    /\ procs[p] = Idle
    /\ Len(auditTasks) + LoginsInFlight < MaxSID
    /\ IF users[id].is_banned
       THEN /\ auditTasks' = EnqueueLoginAudit(auditTasks, AuditPayload(auth, UsernameOf(id), meta), NoFailure)
            /\ UNCHANGED procs
       ELSE /\ procs' = [procs EXCEPT ![p] = [Idle EXCEPT !.op = "login", !.pc = "marker", !.uid = id]]
            /\ UNCHANGED auditTasks
    /\ UNCHANGED <<durable, redis, asynqClient, expireTasks, now, issued, streak, banHistory,
                   deliveries, indexed, http>>

\* The second half of the ban check: the Redis marker.  The password is right.
LoginMarker(p, meta) ==
    LET id == procs[p].uid
        auth == [err |-> "ErrUserBanned", id |-> id, reason |-> "banned_redis"] IN
    /\ At(p, "login", "marker")
    /\ IF id \in banned_user
       THEN /\ auditTasks' = EnqueueLoginAudit(auditTasks, AuditPayload(auth, UsernameOf(id), meta), NoFailure)
            /\ Proceed(p, "done")
       ELSE /\ Goto(p, IF maxSessionsPerUser <= 0 THEN "uuid" ELSE "zcard")
            /\ UNCHANGED auditTasks
    /\ UNCHANGED <<durable, redis, asynqClient, expireTasks, now, issued, streak, banHistory,
                   deliveries, indexed, http>>

\* Login step 3, the reads: ZCARD, then ZRANGE 0 0 at or above the maximum.
LoginZCard(p) ==
    /\ At(p, "login", "zcard")
    /\ Goto(p, IF ZCard(user_sess[procs[p].uid]) < maxSessionsPerUser THEN "uuid" ELSE "zrange")
    /\ UNCHANGED <<durable, redis, asynq, now, issued, streak, banHistory, deliveries,
                   indexed, http>>

LoginZRange(p) ==
    LET oldest == ZRange00(user_sess[procs[p].uid]) IN
    /\ At(p, "login", "zrange")
    /\ procs' = [procs EXCEPT ![p] = IF Len(oldest) = 0 THEN [@ EXCEPT !.pc = "uuid"]
                                      ELSE [@ EXCEPT !.pc = "evict", !.old = oldest[1]]]
    /\ UNCHANGED <<durable, redis, asynq, now, issued, streak, banHistory, deliveries,
                   indexed, http>>

\* What another caller would see between a DEL and a ZREM sent one by one.
RemoveTxDelOnly(st, userID, sessionID) == [st EXCEPT !.sess = Del(@, sessionID)]

\* DEL sess:{sid} and ZREM user_sess:{uid} sid, in one MULTI/EXEC.
RemoveTx(st, userID, sessionID) ==
    [st EXCEPT !.sess = Del(@, sessionID), !.user_sess[userID] = ZRem(@, sessionID)]

\* Login step 3, the eviction: the transaction, then RevokeSession by system:limit.
LoginEvict(p) ==
    LET st == RemoveTx(Stores, procs[p].uid, procs[p].old) IN
    /\ At(p, "login", "evict")
    /\ sess' = st.sess
    /\ user_sess' = st.user_sess
    /\ Goto(p, "revoke")
    /\ UNCHANGED <<durable, banned_user, asynq, now, issued, streak, banHistory, deliveries,
                   indexed, http>>

LoginRevoke(p) ==
    /\ At(p, "login", "revoke")
    /\ sessions' = q_RevokeSession(sessions, procs[p].old, "system:limit", now)
    /\ Goto(p, "uuid")
    /\ UNCHANGED <<users, login_events, redis, asynq, now, issued, streak, banHistory,
                   deliveries, indexed, http>>

\* Login step 4: uuid.NewString().
LoginNewSID(p, newSID) ==
    /\ At(p, "login", "uuid")
    /\ newSID \in FreshSIDs
    /\ issued' = issued \cup {newSID}
    /\ procs' = [procs EXCEPT ![p] = [@ EXCEPT !.pc = Head(LoginOrder), !.sid = newSID]]
    /\ UNCHANGED <<durable, redis, asynq, now, streak, banHistory, deliveries, indexed, http>>

\* Login step 5: HSET, EXPIREAT and ZADD in one MULTI/EXEC.
LoginCreate(p, meta) ==
    LET st == CreateRedisSession(Stores, procs[p].uid, procs[p].sid, now, now + SessionTTL, meta) IN
    /\ At(p, "login", "create")
    /\ sess' = st.sess
    /\ user_sess' = st.user_sess
    /\ indexed' = indexed \cup {procs[p].sid}
    /\ Proceed(p, After(LoginOrder, "create"))
    /\ UNCHANGED <<durable, banned_user, asynq, now, issued, streak, banHistory, deliveries,
                   http>>

\* Login step 6: the ledger row.
LoginLedger(p) ==
    /\ At(p, "login", "ledger")
    /\ sessions' = q_CreateSession(sessions, procs[p].sid, procs[p].uid, now, now + SessionTTL)
    /\ Proceed(p, After(LoginOrder, "ledger"))
    /\ UNCHANGED <<users, login_events, redis, asynq, now, issued, streak, banHistory,
                   deliveries, indexed, http>>

\* Login step 7: the session:expire task, to be processed at expiresAt.
LoginSchedule(p) ==
    /\ At(p, "login", "schedule")
    /\ expireTasks' = EnqueueSessionExpire(expireTasks, procs[p].sid, procs[p].uid,
                                           now + SessionTTL, NoFailure)
    /\ Proceed(p, After(LoginOrder, "schedule"))
    /\ UNCHANGED <<durable, redis, asynqClient, auditTasks, now, issued, streak, banHistory,
                   deliveries, indexed, http>>

\* Login step 8: the login:audit task of the success.
LoginAudit(p, meta) ==
    LET id == procs[p].uid
        auth == [err |-> "nil", id |-> id, reason |-> "ok"] IN
    /\ At(p, "login", "audit")
    /\ auditTasks' = EnqueueLoginAudit(auditTasks, AuditPayload(auth, UsernameOf(id), meta), NoFailure)
    /\ Proceed(p, After(LoginOrder, "audit"))
    /\ UNCHANGED <<durable, redis, asynqClient, expireTasks, now, issued, streak, banHistory,
                   deliveries, indexed, http>>

\* Logout: the transaction, then RevokeSession by the user.
LogoutExec(p, userID, sessionID) ==
    LET st == RemoveTx(Stores, userID, sessionID) IN
    /\ procs[p] = Idle
    /\ sess' = st.sess
    /\ user_sess' = st.user_sess
    /\ procs' = [procs EXCEPT ![p] = [Idle EXCEPT !.op = "logout", !.pc = "revoke",
                                                   !.uid = userID, !.old = sessionID]]
    /\ UNCHANGED <<durable, banned_user, asynq, now, issued, streak, banHistory, deliveries,
                   indexed, http>>

LogoutRevoke(p) ==
    /\ At(p, "logout", "revoke")
    /\ sessions' = q_RevokeSession(sessions, procs[p].old, "user", now)
    /\ Proceed(p, "done")
    /\ UNCHANGED <<users, login_events, redis, asynq, now, issued, streak, banHistory,
                   deliveries, indexed, http>>

\* BanUser in its order: the durable flag, the Redis marker, the teardown.
BanOrderKickFirst == <<"kick", "flag", "marker">>
BanOrder == <<"flag", "marker", "kick">>

BanCalled(p, userID) ==
    /\ procs[p] = Idle
    /\ procs' = [procs EXCEPT ![p] = [Idle EXCEPT !.op = "ban", !.pc = Head(BanOrder),
                                                   !.uid = userID]]
    /\ UNCHANGED <<durable, redis, asynq, now, issued, streak, banHistory, deliveries,
                   indexed, http>>

BanFlag(p) ==
    /\ At(p, "ban", "flag")
    /\ users' = q_BanUser(users, procs[p].uid)
    /\ Proceed(p, After(BanOrder, "flag"))
    /\ UNCHANGED <<sessions, login_events, redis, asynq, now, issued, streak, banHistory,
                   deliveries, indexed, http>>

BanMarker(p) ==
    /\ At(p, "ban", "marker")
    /\ banned_user' = banned_user \cup {procs[p].uid}
    /\ Proceed(p, After(BanOrder, "marker"))
    /\ UNCHANGED <<durable, sess, user_sess, asynq, now, issued, streak, banHistory,
                   deliveries, indexed, http>>

\* KickAllSessions: the index is read, then each member is kicked.
BanEnumerate(p) ==
    /\ At(p, "ban", "kick")
    /\ procs' = [procs EXCEPT ![p] = [@ EXCEPT !.pc = "kicking",
                                               !.todo = ZRangeAll(user_sess[procs[p].uid])]]
    /\ UNCHANGED <<durable, redis, asynq, now, issued, streak, banHistory, deliveries,
                   indexed, http>>

BanKick(p) ==
    LET todo == procs[p].todo
        st == RemoveTx(Stores, procs[p].uid, Head(todo)) IN
    /\ At(p, "ban", "kicking")
    /\ IF todo = <<>>
       THEN /\ Proceed(p, After(BanOrder, "kick"))
            /\ UNCHANGED <<sess, user_sess, sessions>>
       ELSE /\ sess' = st.sess
            /\ user_sess' = st.user_sess
            /\ sessions' = q_RevokeSession(sessions, Head(todo), "admin:kick", now)
            /\ procs' = [procs EXCEPT ![p].todo = Tail(todo)]
    /\ UNCHANGED <<users, login_events, banned_user, asynq, now, issued, streak, banHistory,
                   deliveries, indexed, http>>

\* UnbanUser in its order: the durable flag, then the Redis marker.
UnbanOrder == <<"flag", "marker">>

UnbanCalled(p, userID) ==
    /\ procs[p] = Idle
    /\ procs' = [procs EXCEPT ![p] = [Idle EXCEPT !.op = "unban", !.pc = Head(UnbanOrder),
                                                   !.uid = userID]]
    /\ UNCHANGED <<durable, redis, asynq, now, issued, streak, banHistory, deliveries,
                   indexed, http>>

UnbanFlag(p) ==
    /\ At(p, "unban", "flag")
    /\ users' = q_UnbanUser(users, procs[p].uid)
    /\ Proceed(p, After(UnbanOrder, "flag"))
    /\ UNCHANGED <<sessions, login_events, redis, asynq, now, issued, streak, banHistory,
                   deliveries, indexed, http>>

UnbanMarker(p) ==
    /\ At(p, "unban", "marker")
    /\ banned_user' = banned_user \ {procs[p].uid}
    /\ Proceed(p, After(UnbanOrder, "marker"))
    /\ UNCHANGED <<durable, sess, user_sess, asynq, now, issued, streak, banHistory,
                   deliveries, indexed, http>>

\* ---------------------------------------------------------------- HTTP
\* A header value is the sequence of its parts around the first space; a
\* token of blanks is Blank.
NoHeader == <<>>
Blank == <<" ">>
ToLower(str) == IF str \in {"Bearer", "BEARER"} THEN "bearer" ELSE str
EqualFold(a, b) == ToLower(a) = ToLower(b)
TrimSpace(raw) == IF raw = Blank THEN <<>> ELSE raw

Abort(status, error) ==
    [status |-> status, error |-> error, next |-> FALSE, userID |-> NoUser,
     sessionID |-> NoSID]
Pass(userID, sessionID) ==
    [status |-> 0, error |-> "", next |-> TRUE, userID |-> userID, sessionID |-> sessionID]

\* The middleware of Phase 1: the token alone decides.
AuthJWTMiddlewareTokenOnly(authHeader, f) ==
    IF authHeader = NoHeader THEN Abort(401, "missing Authorization header")
    ELSE IF Len(authHeader) # 2 \/ ~EqualFold(authHeader[1], "Bearer")
         THEN Abort(401, "invalid Authorization header")
    ELSE LET raw == TrimSpace(authHeader[2]) IN
         IF raw = <<>> THEN Abort(401, "empty token")
         ELSE IF Parse(raw).err # "nil" THEN Abort(401, "invalid token")
         ELSE Pass(Parse(raw).UserID, Parse(raw).SessionID)

\* NewAuthJWTMiddleware: Bearer token, Parse, a session id, IsSessionValid.
AuthJWTMiddleware(authHeader, f) ==
    IF authHeader = NoHeader THEN Abort(401, "missing Authorization header")
    ELSE IF Len(authHeader) # 2 \/ ~EqualFold(authHeader[1], "Bearer")
         THEN Abort(401, "invalid Authorization header")
    ELSE LET raw == TrimSpace(authHeader[2]) IN
         IF raw = <<>> THEN Abort(401, "empty token")
         ELSE LET parsed == Parse(raw) IN
              IF parsed.err # "nil" THEN Abort(401, "invalid token")
              ELSE IF parsed.SessionID = NoSID THEN Abort(401, "invalid_token_no_session")
              ELSE LET v == IsSessionValid(parsed.UserID, parsed.SessionID, f) IN
                   IF v.err # "nil" THEN Abort(401, "session_check_failed")
                   ELSE IF ~v.ok THEN Abort(401, "session_invalid")
                   ELSE Pass(parsed.UserID, parsed.SessionID)

\* NewAdminAPIKeyMiddleware: X-Admin-Token against the configured key.
AdminAPIKeyMiddlewareOpen(adminKey, token) == Pass(NoUser, NoSID)
AdminAPIKeyMiddleware(adminKey, token) ==
    IF adminKey = "" THEN Pass(NoUser, NoSID)
    ELSE IF token = "" \/ token # adminKey THEN Abort(403, "forbidden")
    ELSE Pass(NoUser, NoSID)

\* ListActiveSessions: the index is read, then the hash of each member; a
\* member without a hash is left out.
RECURSIVE ReadEachUnskipped(_, _)
ReadEachUnskipped(st, sids) ==
    IF sids = <<>> THEN <<>>
    ELSE LET data == HGetAll(st.sess, Head(sids)) IN
         <<[session_id |-> Head(sids),
            ip |-> IF DOMAIN data = {} THEN "" ELSE data.ip,
            user_agent |-> IF DOMAIN data = {} THEN "" ELSE data.user_agent]>>
         \o ReadEachUnskipped(st, Tail(sids))

RECURSIVE ReadEach(_, _)
ReadEach(st, sids) ==
    IF sids = <<>> THEN <<>>
    ELSE LET data == HGetAll(st.sess, Head(sids))
             rest == ReadEach(st, Tail(sids))
         IN  IF DOMAIN data = {} THEN rest
             ELSE <<[session_id |-> Head(sids), ip |-> data.ip,
                     user_agent |-> data.user_agent]>> \o rest

ListActiveSessions(st, userID, f) ==
    IF f.at \in {"ZRangeAll", "HGetAll"} THEN [err |-> "error", sessions |-> <<>>]
    ELSE [err |-> "nil", sessions |-> ReadEach(st, ZRangeAll(st.user_sess[userID]))]

Respond(status, error, handler, userID, sessionID, list) ==
    response' = [status |-> status, error |-> error, handler |-> handler, userID |-> userID,
                 sessionID |-> sessionID, sessions |-> list]

\* GET /me and POST /auth/logout, behind NewAuthJWTMiddleware.
ProtectedRequest(route, authHeader, f) ==
    LET m == AuthJWTMiddleware(authHeader, f)
        r == LogoutResult(Stores, m.userID, m.sessionID, NoFailure, now)
    IN  /\ IF ~m.next
           THEN /\ Respond(m.status, m.error, "", NoUser, NoSID, <<>>)
                /\ UNCHANGED <<sess, user_sess, sessions, streak, banHistory>>
           ELSE IF route = "Me"
           THEN /\ Respond(200, "", "Me", m.userID, m.sessionID, <<>>)
                /\ UNCHANGED <<sess, user_sess, sessions, streak, banHistory>>
           ELSE /\ Respond(IF r.err = "nil" THEN 200 ELSE 500,
                           IF r.err = "nil" THEN "" ELSE "logout failed",
                           "Logout", m.userID, m.sessionID, <<>>)
                /\ sess' = r.st.sess
                /\ user_sess' = r.st.user_sess
                /\ sessions' = r.st.sessions
                /\ streak' = NoStreak
                /\ banHistory' = Settle(banHistory)
        /\ UNCHANGED <<users, login_events, banned_user, asynq, now, issued, deliveries,
                       indexed, concurrent, adminAPIKey, maxSessionsPerUser>>

\* GET /admin/users/:id/sessions and POST /admin/users/:id/kick with all set,
\* behind NewAdminAPIKeyMiddleware.
AdminRequest(route, token, userID) ==
    LET m == AdminAPIKeyMiddleware(adminAPIKey, token)
        l == ListActiveSessions(Stores, userID, NoFailure)
        r == KickAllSessionsResult(Stores, userID, NoFailure, now)
    IN  /\ IF ~m.next
           THEN /\ Respond(m.status, m.error, "", NoUser, NoSID, <<>>)
                /\ UNCHANGED <<sess, user_sess, sessions, streak, banHistory>>
           ELSE IF route = "ListUserSessions"
           THEN /\ Respond(IF l.err = "nil" THEN 200 ELSE 500,
                           IF l.err = "nil" THEN "" ELSE "failed to list sessions",
                           "ListUserSessions", userID, NoSID, l.sessions)
                /\ UNCHANGED <<sess, user_sess, sessions, streak, banHistory>>
           ELSE /\ Respond(IF r.err = "nil" THEN 200 ELSE 500,
                           IF r.err = "nil" THEN "" ELSE "failed to kick all sessions",
                           "KickUserSessions", userID, NoSID, <<>>)
                /\ sess' = r.st.sess
                /\ user_sess' = r.st.user_sess
                /\ sessions' = r.st.sessions
                /\ streak' = NoStreak
                /\ banHistory' = Settle(banHistory)
        /\ UNCHANGED <<users, login_events, banned_user, asynq, now, issued, deliveries,
                       indexed, concurrent, adminAPIKey, maxSessionsPerUser>>

\* ------------------------------------------------------- specifications
Init ==
    /\ users = [id \in UserIDs |->
                   [username |-> UsernameOf(id),
                    password_hash |-> bcryptGenerate(PasswordOf(id)),
                    is_banned |-> FALSE]]
    /\ sessions = <<>>
    /\ login_events = <<>>
    /\ sess = <<>>
    /\ user_sess = [id \in UserIDs |-> {}]
    /\ banned_user = {}
    /\ asynqClient = FALSE
    /\ expireTasks = {}
    /\ auditTasks = <<>>
    /\ now = 0
    /\ issued = {}
    /\ streak = NoStreak
    /\ banHistory = [id \in UserIDs |-> "none"]
    /\ expireRuns = <<>>
    /\ auditRuns = <<>>
    /\ indexed = {}
    /\ procs = [p \in Procs |-> Idle]
    /\ adminAPIKey = "dev-admin"
    /\ maxSessionsPerUser = MaxSessionsPerUser
    /\ response = NoResponse

\* A caller presents an identifier a login generated, or one none ever did.
KnownSIDs == issued \cup {MissingSID}

\* The store accesses of each call that can fail.
LoginFailures ==
    {Fail(at) : at \in {"GetUserByUsername", "ZCard", "ZRange", "EvictExec",
                        "EvictRevoke", "CreateExec", "CreateSession"}}
RemoveFailures == {Fail("Exec"), Fail("Revoke")}
KickAllFailures ==
    {Fail("ZRangeAll"), Fail("Revoke")} \cup {[at |-> "Exec", member |-> s] : s \in issued}
BanFailures == {Fail("BanUser"), Fail("Set")} \cup KickAllFailures
UnbanFailures == {Fail("UnbanUser"), Fail("Del")}

\* The calls of the users U (and of the administrator about them), with the
\* store failures F.
LoginCall(U, F) ==
    \E username \in {UsernameOf(id) : id \in U} \cup {UnknownUsername},
       password \in {PasswordOf(id) : id \in U} \cup {WrongPassword},
       meta \in LoginMetas, newSID \in FreshSIDs \cup {NoSID}, f \in F :
        Login(username, password, meta, newSID, f)
LogoutCall(U, F) ==
    \E userID \in U, sessionID \in KnownSIDs, f \in F : Logout(userID, sessionID, f)
KickSessionCall(U, F) ==
    \E userID \in U, sessionID \in KnownSIDs, f \in F : KickSession(userID, sessionID, f)
KickAllSessionsCall(U, F) == \E userID \in U, f \in F : KickAllSessions(userID, f)
BanUserCall(U, F) == \E userID \in U, f \in F : BanUser(userID, f)
UnbanUserCall(U, F) == \E userID \in U, f \in F : UnbanUser(userID, f)

\* One user logs in and is administered, Logout and KickSession may name any
\* user, and no store access fails.
OneUser == {1}
Next ==
    \/ LoginCall(OneUser, {NoFailure})
    \/ LogoutCall(UserIDs, {NoFailure})
    \/ KickSessionCall(UserIDs, {NoFailure})
    \/ KickAllSessionsCall(OneUser, {NoFailure})
    \/ BanUserCall(OneUser, {NoFailure})
    \/ UnbanUserCall(OneUser, {NoFailure})
    \/ Tick

Spec == Init /\ [][Next]_vars

\* One user is active and any one store access of a call may fail.
NextF ==
    \/ LoginCall(OneUser, LoginFailures \cup {NoFailure})
    \/ LogoutCall(OneUser, RemoveFailures \cup {NoFailure})
    \/ KickSessionCall(OneUser, RemoveFailures \cup {NoFailure})
    \/ KickAllSessionsCall(OneUser, KickAllFailures \cup {NoFailure})
    \/ BanUserCall(OneUser, BanFailures \cup {NoFailure})
    \/ UnbanUserCall(OneUser, UnbanFailures \cup {NoFailure})
    \/ Tick

SpecF == Init /\ [][NextF]_vars

\* As cmd/api wires it: the service holds an Asynq client, and the worker runs.
InitW ==
    /\ users = [id \in UserIDs |->
                   [username |-> UsernameOf(id),
                    password_hash |-> bcryptGenerate(PasswordOf(id)),
                    is_banned |-> FALSE]]
    /\ sessions = <<>>
    /\ login_events = <<>>
    /\ sess = <<>>
    /\ user_sess = [id \in UserIDs |-> {}]
    /\ banned_user = {}
    /\ asynqClient = TRUE
    /\ expireTasks = {}
    /\ auditTasks = <<>>
    /\ now = 0
    /\ issued = {}
    /\ streak = NoStreak
    /\ banHistory = [id \in UserIDs |-> "none"]
    /\ expireRuns = <<>>
    /\ auditRuns = <<>>
    /\ indexed = {}
    /\ procs = [p \in Procs |-> Idle]
    /\ adminAPIKey = "dev-admin"
    /\ maxSessionsPerUser = MaxSessionsPerUser
    /\ response = NoResponse

SessionExpireCall(F) == \E task \in expireTasks, f \in F : SessionExpireHandler(task, f)
LoginAuditCall(F) == \E i \in 1..Len(auditTasks), f \in F : LoginAuditHandler(i, f)

\* One user logs in, with the right password, and sessions are logged out and
\* kicked; the worker handles the session:expire tasks the logins left, on
\* time, late, again or never.
SuccessfulLoginCall(U) ==
    \E id \in U, meta \in LoginMetas, newSID \in FreshSIDs :
        Login(UsernameOf(id), PasswordOf(id), meta, newSID, NoFailure)

NextW ==
    \/ SuccessfulLoginCall(OneUser)
    \/ LogoutCall(OneUser, {NoFailure})
    \/ KickSessionCall(OneUser, {NoFailure})
    \/ SessionExpireCall({NoFailure})
    \/ Tick

SpecW == InitW /\ [][NextW]_vars

\* One user's login attempts, of every outcome, and the worker handling the
\* login:audit tasks they left.
AuditedLoginCall(U) == Len(auditTasks) < MaxAuditTasks /\ LoginCall(U, {NoFailure})

NextA ==
    \/ AuditedLoginCall(OneUser)
    \/ LoginAuditCall({NoFailure})
    \/ Tick

SpecA == InitW /\ [][NextA]_vars

\* Two callers whose calls overlap: logins of one user with the right
\* password, logouts of that user's sessions, and the administrator's ban.
LoginSteps(p) ==
    \/ \E id \in OneUser, meta \in LoginMetas : LoginLookup(p, id, meta)
    \/ \E meta \in LoginMetas : LoginMarker(p, meta)
    \/ LoginZCard(p)
    \/ LoginZRange(p)
    \/ LoginEvict(p)
    \/ LoginRevoke(p)
    \/ \E newSID \in FreshSIDs : LoginNewSID(p, newSID)
    \/ \E meta \in LoginMetas : LoginCreate(p, meta)
    \/ LoginLedger(p)
    \/ LoginSchedule(p)
    \/ \E meta \in LoginMetas : LoginAudit(p, meta)
LogoutSteps(p) ==
    \/ \E userID \in OneUser : \E sessionID \in Members(user_sess[userID]) :
           LogoutExec(p, userID, sessionID)
    \/ LogoutRevoke(p)
BanSteps(p) ==
    \/ \E userID \in OneUser : BanCalled(p, userID)
    \/ BanFlag(p)
    \/ BanMarker(p)
    \/ BanEnumerate(p)
    \/ BanKick(p)

NextC ==
    \/ \E p \in Procs : LoginSteps(p)
    \/ \E p \in Procs : LogoutSteps(p)
    \/ \E p \in Procs : BanSteps(p)

SpecC == InitW /\ [][NextC]_vars

\* The HTTP boundary: one user logs in, clients present Authorization headers
\* to the protected routes and X-Admin-Token headers to the admin routes, and
\* time passes.  ADMIN_API_KEY is set or empty.
AdminKeys == {"", "dev-admin"}
AdminTokens == {"", "dev-admin", "wrong-key"}
InitH ==
    /\ users = [id \in UserIDs |->
                   [username |-> UsernameOf(id),
                    password_hash |-> bcryptGenerate(PasswordOf(id)),
                    is_banned |-> FALSE]]
    /\ sessions = <<>>
    /\ login_events = <<>>
    /\ sess = <<>>
    /\ user_sess = [id \in UserIDs |-> {}]
    /\ banned_user = {}
    /\ asynqClient = FALSE
    /\ expireTasks = {}
    /\ auditTasks = <<>>
    /\ now = 0
    /\ issued = {}
    /\ streak = NoStreak
    /\ banHistory = [id \in UserIDs |-> "none"]
    /\ expireRuns = <<>>
    /\ auditRuns = <<>>
    /\ indexed = {}
    /\ procs = [p \in Procs |-> Idle]
    /\ adminAPIKey \in AdminKeys
    /\ maxSessionsPerUser = MaxSessionsPerUser
    /\ response = NoResponse

\* The tokens a client can hold: the one the login endpoint issued for a
\* session of the ledger, a token of Generate, one signed with another secret,
\* and a string that is no JWT.
IssuedToken(s) == GenerateWithSession(sessions[s].user_id, s, sessions[s].expires_at)
HeldTokens ==
    {IssuedToken(s) : s \in DOMAIN sessions}
    \cup {Generate(id) : id \in OneUser}
    \cup {SignedString([sub |-> sessions[s].user_id, sid |-> s, iat |-> now,
                        exp |-> sessions[s].expires_at], ForeignSecret) : s \in DOMAIN sessions}
    \cup {<<"not-a-valid-jwt">>}
AuthHeaders(tokens) ==
    {NoHeader, <<"Bearer">>, <<"Bearer", Blank>>}
    \cup {<<scheme, raw>> : scheme \in {"Bearer", "bearer", "Token"}, raw \in tokens}

\* The headers clients send: none, malformed ones, and Bearer with each token.
PresentedHeaders ==
    {NoHeader, <<"Bearer">>, <<"Bearer", Blank>>, <<"Token", <<"something">>>>}
    \cup {<<"Bearer", raw>> : raw \in HeldTokens}
    \cup {<<"bearer", IssuedToken(s)>> : s \in DOMAIN sessions}

ProtectedCall ==
    \E route \in {"Me", "Logout"}, authHeader \in PresentedHeaders,
       f \in {NoFailure, Fail("HGetAll")} :
        ProtectedRequest(route, authHeader, f)
AdminCall ==
    \E route \in {"ListUserSessions", "KickUserSessions"}, token \in AdminTokens,
       userID \in OneUser :
        AdminRequest(route, token, userID)

NextH ==
    \/ SuccessfulLoginCall(OneUser)
    \/ ProtectedCall
    \/ AdminCall
    \/ Tick

SpecH == InitH /\ [][NextH]_vars

\* ================================================================ claims
\* What a caller is told about a session: IsSessionValid without a failure.
Valid(userID, sessionID) == IsSessionValid(userID, sessionID, NoFailure).ok
ValidIn(st, userID, sessionID) == IsSessionValidIn(st, userID, sessionID, NoFailure).ok

\* C1: after a successful login, at the moment it returns, the live record of
\* the returned session id exists, its user_id is the authenticated user's id,
\* that user's index contains the session id, and the ledger holds the one row
\* of that session id (its primary key), for that user.
C1_LoginCreatesSession ==
    \A id \in UserIDs, password \in Passwords, meta \in LoginMetas, newSID \in FreshSIDs :
        LET r == LoginResult(UsernameOf(id), password, meta, newSID, NoFailure) IN
        r.err = "nil" =>
            /\ r.user = id
            /\ r.sessionID = newSID
            /\ r.sessionID \in DOMAIN r.st.sess
            /\ r.st.sess[r.sessionID].fields.user_id = stringFromInt64(id)
            /\ ValidIn(r.st, id, r.sessionID)
            /\ r.sessionID \in Members(r.st.user_sess[id])
            /\ r.sessionID \in DOMAIN r.st.sessions
            /\ r.st.sessions[r.sessionID].user_id = id
            /\ r.sessionID \notin DOMAIN sessions

\* A login has just returned a session to a user who already held one.
C1_Witness ==
    /\ Len(streak.sids) = 2
    /\ streak.sids[2] \in DOMAIN sess
    /\ streak.sids[2] \in Members(user_sess[streak.user])
    /\ streak.sids[2] \in DOMAIN sessions

\* C2: with MaxSessionsPerUser = N > 0, after N + 1 successive successful
\* logins of a user whose index was empty, the index holds exactly N entries
\* and the session of the first of those logins is the absent one.
C2_FirstLoginEvicted ==
    (MaxSessionsPerUser > 0 /\ Len(streak.sids) = MaxSessionsPerUser + 1) =>
        /\ ZCard(user_sess[streak.user]) = MaxSessionsPerUser
        /\ Members(user_sess[streak.user]) = Range(streak.sids) \ {streak.sids[1]}

\* C3: with MaxSessionsPerUser = 2, after a user's third login (none of the
\* three sessions having reached its expiry) IsSessionValid is false for the
\* first session id and true for the second and the third.
C3_ThirdLoginInvalidatesFirst ==
    (/\ MaxSessionsPerUser = 2
     /\ Len(streak.sids) = 3
     /\ \A i \in 1..3 : sessions[streak.sids[i]].expires_at > now) =>
        /\ ~Valid(streak.user, streak.sids[1])
        /\ Valid(streak.user, streak.sids[2])
        /\ Valid(streak.user, streak.sids[3])

\* C4: IsSessionValid is false for every session id no login issued; it is
\* false once Logout or KickSession for that id has returned; and an issued id
\* that is invalid stays invalid whatever call follows.
C4_InvalidStaysInvalid ==
    /\ [](/\ \A u \in UserIDs, s \in (SessionIDs \ issued) \cup {MissingSID} : ~Valid(u, s)
          /\ \A u \in UserIDs, s \in KnownSIDs :
                 LET out == LogoutResult(Stores, u, s, NoFailure, now)
                     kick == KickSessionResult(Stores, u, s, NoFailure, now)
                 IN  /\ out.err = "nil" => \A v \in UserIDs : ~ValidIn(out.st, v, s)
                     /\ kick.err = "nil" => \A v \in UserIDs : ~ValidIn(kick.st, v, s))
    /\ [][\A v \in UserIDs, s \in issued : ~Valid(v, s) => ~Valid(v, s)']_vars

\* A session was logged out or kicked, and a later login created a live one.
C4_Witness ==
    \E s \in issued, s2 \in DOMAIN sess :
        /\ s \notin DOMAIN sess
        /\ sessions[s].revoked_by \in {<<"user">>, <<"admin:kick">>}
        /\ s2 \in DOMAIN sessions
        /\ sessions[s2].created_at > sessions[s].revoked_at[1]

\* C5: Logout twice in succession with the same arguments (at the same second
\* or a later one) returns success both times, and the stores after the second
\* call are those after the first.
C5_LogoutIdempotent ==
    \A u \in UserIDs, s \in KnownSIDs, t2 \in {now, now + 1} :
        LET first == LogoutResult(Stores, u, s, NoFailure, now)
            second == LogoutResult(first.st, u, s, NoFailure, t2)
        IN  /\ first.err = "nil"
            /\ second.err = "nil"
            /\ second.st = first.st

\* A session was logged out at an earlier second: a Logout of it now is a repeat.
C5_Witness ==
    \E s \in issued :
        /\ sessions[s].revoked_by = <<"user">>
        /\ sessions[s].revoked_at[1] < now
        /\ s \notin Members(user_sess[sessions[s].user_id])

\* C6: while a ban that BanUser returned is in force, every login of the user,
\* with the right or a wrong password, fails with ErrUserBanned, no session of
\* the user is valid, and the user's index is empty.
C6_BanInForce ==
    \A u \in UserIDs :
        banHistory[u] = "in force" =>
            /\ \A password \in Passwords, meta \in LoginMetas, newSID \in FreshSIDs \cup {NoSID} :
                   LoginResult(UsernameOf(u), password, meta, newSID, NoFailure).err
                       = "ErrUserBanned"
            /\ \A s \in DOMAIN sessions : sessions[s].user_id = u => ~Valid(u, s)
            /\ user_sess[u] = {}

\* A ban is in force over a user whose unexpired session the ban kicked.
C6_Witness ==
    \E u \in UserIDs, s \in DOMAIN sessions :
        /\ banHistory[u] = "in force"
        /\ sessions[s].user_id = u
        /\ sessions[s].revoked_by = <<"admin:kick">>
        /\ sessions[s].expires_at > now

\* C7: whenever the durable ban flag of a user is set or the Redis ban marker
\* of the user is present, also when only one of the two is, a login of the
\* user fails with ErrUserBanned and creates no session.
C7_EitherSignalBans ==
    \A u \in UserIDs :
        (users[u].is_banned \/ u \in banned_user) =>
            \A password \in Passwords, meta \in LoginMetas, newSID \in FreshSIDs \cup {NoSID} :
                LET r == LoginResult(UsernameOf(u), password, meta, newSID, NoFailure) IN
                /\ r.err = "ErrUserBanned"
                /\ r.sessionID = NoSID
                /\ r.st = Stores

\* The stores disagree: the durable flag is set and the Redis marker is not,
\* over a user with a live session.
C7_Witness ==
    \E u \in UserIDs :
        /\ users[u].is_banned
        /\ u \notin banned_user
        /\ \E s \in DOMAIN sess : Valid(u, s)

\* C8: when UnbanUser has lifted a ban that BanUser had put in force, the
\* durable flag is clear and the Redis marker absent, so that a login of the
\* user with the right password succeeds; and UnbanUser restores no session: a
\* session id invalid before the call is invalid after it.
C8_UnbanClearsBan ==
    /\ [](\A u \in UserIDs :
              banHistory[u] = "lifted" =>
                  /\ ~users[u].is_banned
                  /\ u \notin banned_user
                  /\ \A meta \in LoginMetas, newSID \in FreshSIDs :
                         LoginResult(UsernameOf(u), PasswordOf(u), meta, newSID, NoFailure).err
                             = "nil")
    /\ [][\A u \in UserIDs :
              UnbanUser(u, NoFailure) =>
                  \A v \in UserIDs, s \in KnownSIDs : ~Valid(v, s) => ~Valid(v, s)'
         ]_vars

\* UnbanUser has just lifted a ban that was in force; the session the ban
\* kicked is invalid, and a session id is left for the next login.
C8_Witness ==
    \E u \in UserIDs, s \in DOMAIN sessions :
        /\ banHistory[u] = "lifted"
        /\ sessions[s].user_id = u
        /\ sessions[s].revoked_by = <<"admin:kick">>
        /\ ~Valid(u, s)
        /\ FreshSIDs # {}

\* C9: a login with an unknown username and a login of an existing, non-banned
\* user with a wrong password give the caller the same result: both return
\* ErrInvalidCredentials, no user, no session id and the same HTTP response,
\* and both leave the session stores as they were.
C9_NoUsernameEnumeration ==
    \A u \in UserIDs, password \in Passwords, meta \in LoginMetas :
        (~users[u].is_banned /\ u \notin banned_user) =>
            LET unknown == LoginResult(UnknownUsername, password, meta, NoSID, NoFailure)
                wrong == LoginResult(UsernameOf(u), WrongPassword, meta, NoSID, NoFailure)
            IN  /\ unknown.err = "ErrInvalidCredentials"
                /\ wrong.err = "ErrInvalidCredentials"
                /\ unknown.user = NoUser /\ wrong.user = NoUser
                /\ unknown.sessionID = NoSID /\ wrong.sessionID = NoSID
                /\ unknown.expiresAt = wrong.expiresAt
                /\ LoginResponse(unknown) = LoginResponse(wrong)
                /\ LoginResponse(wrong).status = 401
                /\ unknown.st = Stores /\ wrong.st = Stores

\* An existing user who is not banned holds a live session.
C9_Witness ==
    \E u \in UserIDs, s \in DOMAIN sess :
        /\ ~users[u].is_banned /\ u \notin banned_user
        /\ Valid(u, s)
        /\ s \in Members(user_sess[u])

\* C10: a login that fails with ErrInvalidCredentials or ErrUserBanned returns
\* the empty session id, generates none, and leaves the hashes, the indexes
\* and the ledger as they were: nothing is created, evicted or revoked.
C10_FailedLoginChangesNothing ==
    \A username \in Usernames, password \in Passwords, meta \in LoginMetas :
        LET r == LoginResult(username, password, meta, NoSID, NoFailure) IN
        r.err \in {"ErrInvalidCredentials", "ErrUserBanned"} =>
            /\ r.sessionID = NoSID
            /\ ~GeneratesSID(username, password, NoFailure)
            /\ r.st = Stores

\* A user at the maximum, for whom a login with a wrong password fails: were
\* the enforcement step reached, it would evict.
C10_Witness ==
    \E u \in UserIDs, meta \in LoginMetas :
        /\ ZCard(user_sess[u]) >= MaxSessionsPerUser
        /\ \A s \in Members(user_sess[u]) : Valid(u, s)
        /\ LoginResult(UsernameOf(u), WrongPassword, meta, NoSID, NoFailure).err
               = "ErrInvalidCredentials"

\* C11: IsSessionValid(userID, sessionID) returns true exactly when the hash
\* of sessionID exists and its user_id is userID (the user the ledger row of
\* the session names); for an absent hash, and for a hash of another user, it
\* returns false with no error; it returns an error only when HGetAll fails.
C11_ValidIffOwnedLiveRecord ==
    \A u \in UserIDs, s \in SessionIDs \cup {MissingSID} :
        LET r == IsSessionValid(u, s, NoFailure)
            failed == IsSessionValid(u, s, Fail("HGetAll"))
        IN  /\ r.err = "nil"
            /\ r.ok <=> (s \in DOMAIN sess /\ sess[s].fields.user_id = stringFromInt64(u))
            /\ (s \in DOMAIN sess /\ s \in DOMAIN sessions) => (r.ok <=> sessions[s].user_id = u)
            /\ s \notin DOMAIN sess => ~r.ok
            /\ failed.err # "nil" /\ ~failed.ok

\* A live session of one user (valid for its owner, invalid for the other
\* user) beside an issued session whose hash is gone.
C11_Witness ==
    \E s \in DOMAIN sess, gone \in issued \ DOMAIN sess, u, v \in UserIDs :
        /\ Valid(u, s)
        /\ ~Valid(v, s)
        /\ ~Valid(u, gone)

\* The ledger as it is, without the row of s, and with that row unrevoked or
\* revoked.
LedgerVariants(s) ==
    LET row(by) == [user_id |-> 1, created_at |-> 0, expires_at |-> SessionTTL,
                    revoked_at |-> IF by = NULL THEN NULL ELSE <<now>>, revoked_by |-> by]
        with(r) == [k \in (DOMAIN sessions) \cup {s} |-> IF k = s THEN r ELSE sessions[k]]
    IN  {sessions, [k \in (DOMAIN sessions) \ {s} |-> sessions[k]],
         with(row(NULL)), with(row(<<"user">>))}

\* C12: the result of IsSessionValid depends on the Redis hashes only: it is
\* the same whatever the ledger holds about the session (no row, a revoked
\* row, an unrevoked row), and a step that leaves the hashes as they were,
\* whatever it does to the ledger and to the ban flags, leaves every result as
\* it was.  (IsSessionValid returns a value and writes nothing: it is no step.)
C12_ValidReadsRedisOnly ==
    /\ [](\A u \in UserIDs, s \in KnownSIDs, f \in {NoFailure, Fail("HGetAll")} :
              \A ledger \in LedgerVariants(s) :
                  IsSessionValidIn([Stores EXCEPT !.sessions = ledger], u, s, f)
                      = IsSessionValid(u, s, f))
    /\ [][sess' = sess =>
              \A u \in UserIDs, s \in KnownSIDs : Valid(u, s)' = Valid(u, s)]_vars

\* A session is valid although its ledger row is revoked and its user carries
\* the durable ban flag.
C12_Witness ==
    \E u \in UserIDs, s \in DOMAIN sess :
        /\ Valid(u, s)
        /\ s \in DOMAIN sessions
        /\ sessions[s].revoked_at # NULL
        /\ users[u].is_banned

\* C13: the session:expire handler is a successful no-op when the hash of its
\* session id is gone (logged out, kicked, evicted, expired or handled by an
\* earlier delivery): it returns nil and leaves hashes, indexes and ledger,
\* the recorded revoked_by included, as they were; and handling one task twice
\* (at the same second or a later one) leaves the stores of handling it once.
C13_ExpireJobNoOpWhenGone ==
    \A task \in expireTasks, t2 \in {now, now + 1} :
        LET once == SessionExpireResult(Stores, task, NoFailure, now)
            twice == SessionExpireResult(once.st, task, NoFailure, t2)
        IN  /\ task.session_id \notin DOMAIN sess => (once.err = "nil" /\ once.st = Stores)
            /\ once.err = "nil"
            /\ twice.err = "nil"
            /\ twice.st = once.st

\* The task of a session that its user logged out has been handled twice, and
\* the ledger still names the user as the revoking actor.
C13_Witness ==
    \E task \in expireTasks :
        /\ Runs(expireRuns, task.session_id) = 2
        /\ task.session_id \notin DOMAIN sess
        /\ task.session_id \in DOMAIN sessions
        /\ sessions[task.session_id].revoked_by = <<"user">>

\* C14: the login:audit handler is idempotent under at-least-once delivery:
\* handling one task more than once leaves login_events as handling it once
\* did, so that login_events holds one row for each task handled.
C14_AuditJobIdempotent ==
    Len(login_events) = Cardinality({i \in DOMAIN auditRuns : auditRuns[i] >= 1})

\* The sessions that reached their expiry with no logout, kick or eviction.
Unrevoked(s) ==
    /\ s \in DOMAIN sessions
    /\ sessions[s].revoked_by \notin {<<"user">>, <<"admin:kick">>, <<"system:limit">>}

\* C15: the expiry of the hash is what ends a session: at and after the
\* expiry second of a session IsSessionValid is false for it, whether its
\* session:expire task has been handled on time, late, more than once or never.
C15_ExpiredNeverValid ==
    /\ \A task \in expireTasks :
           task.process_at <= now => \A u \in UserIDs : ~Valid(u, task.session_id)
    /\ \A s \in DOMAIN sessions :
           sessions[s].expires_at <= now => \A u \in UserIDs : ~Valid(u, s)
    /\ \A s \in DOMAIN sess : sess[s].fields.expires_at > now

\* Two sessions are past their expiry, never logged out: the task of one was
\* never handled, the task of the other was handled twice.
C15_Witness ==
    \E never, again \in expireTasks :
        /\ never.process_at <= now /\ again.process_at <= now
        /\ Runs(expireRuns, never.session_id) = 0
        /\ Runs(expireRuns, again.session_id) = 2
        /\ Unrevoked(never.session_id) /\ Unrevoked(again.session_id)

\* C16: for a session that reached its expiry without logout, kick or
\* eviction, once the session:expire task scheduled at its expiry has been
\* handled, the session id is no longer in the user's index and the ledger row
\* is revoked by system:expire.
C16_ExpireJobCleansUp ==
    \A task \in expireTasks :
        (Runs(expireRuns, task.session_id) >= 1 /\ Unrevoked(task.session_id)) =>
            /\ task.session_id \notin Members(user_sess[task.user_id])
            /\ sessions[task.session_id].revoked_by = <<"system:expire">>

\* C17: when no call and no task is in flight (a session:expire task that is
\* due and not yet handled counts as in flight), every session id in a
\* user's index has its hash.
C17_IndexedHasLiveRecord ==
    \A u \in UserIDs : \A s \in Members(user_sess[u]) :
        (\A task \in expireTasks :
             (task.session_id = s /\ task.process_at <= now) => Runs(expireRuns, s) >= 1)
            => s \in DOMAIN sess

\* C18: when the Redis transaction of login that writes the hash and the
\* index entry fails, login returns an error and no session id, and writes no
\* ledger row for the new session; neither the hash nor the index entry of
\* the new session exists afterwards.
C18_FailedTransactionAborts ==
    \A u \in UserIDs, meta \in LoginMetas, newSID \in FreshSIDs :
        LET ok == LoginResult(UsernameOf(u), PasswordOf(u), meta, newSID, NoFailure)
            r == LoginResult(UsernameOf(u), PasswordOf(u), meta, newSID, Fail("CreateExec"))
        IN  ok.err = "nil" =>
                /\ r.err \notin {"nil", "ErrInvalidCredentials", "ErrUserBanned"}
                /\ r.sessionID = NoSID
                /\ r.user = NoUser
                /\ newSID \notin DOMAIN r.st.sessions
                /\ newSID \notin DOMAIN r.st.sess
                /\ \A v \in UserIDs : newSID \notin Members(r.st.user_sess[v])

\* A login generated a session id of which no store holds anything, beside a
\* live session of the user.
C18_Witness ==
    \E s \in issued, u \in UserIDs :
        /\ s \notin DOMAIN sessions
        /\ s \notin DOMAIN sess
        /\ s \notin Members(user_sess[u])
        /\ \E live \in Members(user_sess[u]) : Valid(u, live)
        /\ FreshSIDs # {}

\* C19: when login fails after its Redis transaction has committed (the
\* ledger insert fails or is cancelled), login returns an error and no session
\* id and rolls nothing back: the hash and the index entry of the new session
\* are those a successful login leaves, IsSessionValid is true for the session
\* until the expiry of the hash, and the session counts in the user's index.
C19_NoRollbackAfterCommit ==
    \A u \in UserIDs, meta \in LoginMetas, newSID \in FreshSIDs :
        LET ok == LoginResult(UsernameOf(u), PasswordOf(u), meta, newSID, NoFailure)
            r == LoginResult(UsernameOf(u), PasswordOf(u), meta, newSID, Fail("CreateSession"))
            before == EnforceMaxSessions(Stores, u, NoFailure, now).st
            at(t) == [r.st EXCEPT !.sess = Expire(@, t)]
        IN  ok.err = "nil" =>
                /\ r.err \notin {"nil", "ErrInvalidCredentials", "ErrUserBanned"}
                /\ r.sessionID = NoSID
                /\ newSID \notin DOMAIN r.st.sessions
                /\ r.st.sess = ok.st.sess
                /\ r.st.user_sess = ok.st.user_sess
                /\ newSID \in DOMAIN r.st.sess
                /\ newSID \in Members(r.st.user_sess[u])
                /\ ZCard(r.st.user_sess[u]) = ZCard(before.user_sess[u]) + 1
                /\ \A t \in now..(now + SessionTTL - 1) : ValidIn(at(t), u, newSID)
                /\ ~ValidIn(at(now + SessionTTL), u, newSID)

\* A user at the maximum holds a valid session that has no ledger row.
C19_Witness ==
    \E u \in UserIDs, s \in DOMAIN sess :
        /\ s \notin DOMAIN sessions
        /\ Valid(u, s)
        /\ s \in Members(user_sess[u])
        /\ ZCard(user_sess[u]) = MaxSessionsPerUser

\* The store accesses of the best-effort steps of login.
BestEffortFailures ==
    {Fail(at) : at \in {"ZCard", "ZRange", "EvictExec", "EvictRevoke",
                        "EnqueueSessionExpire", "EnqueueLoginAudit"}}

\* C20: a failure of a store access in a best-effort step of login (any access
\* of the enforcement and eviction step, scheduling the session:expire task,
\* enqueuing the login:audit task) does not make login return an error: a
\* login that succeeds without the failure succeeds with it.
C20_BestEffortNeverFailsLogin ==
    \A u \in UserIDs, meta \in LoginMetas, newSID \in FreshSIDs, f \in BestEffortFailures :
        LoginResult(UsernameOf(u), PasswordOf(u), meta, newSID, NoFailure).err = "nil" =>
            LoginResult(UsernameOf(u), PasswordOf(u), meta, newSID, f).err = "nil"

\* Login steps 3 to 6 of a further login of the user that runs alone, with
\* the right password, and k such logins one after the other; the session
\* ids are ones no earlier login returned.
SequentialLogin(st, userID, newSID) ==
    CreateSession(EnforceMaxSessions(st, userID, NoFailure, now), userID,
                  CHOOSE meta \in LoginMetas : TRUE, newSID, NoFailure, now).st
RECURSIVE SequentialLogins(_, _, _)
SequentialLogins(st, userID, k) ==
    IF k = 0 THEN st
    ELSE SequentialLogin(SequentialLogins(st, userID, k - 1), userID, MissingSID + k)

\* C21: an index that overlapping logins of a user left above the maximum is
\* corrected by the user's later logins: once no call is in flight and the
\* user keeps logging in, one login after the other, the index size returns
\* to at most the maximum (within MaxSID further logins).
C21_OvershootSelfCorrects ==
    \A id \in UserIDs :
        (/\ Quiescent
         /\ ZCard(user_sess[id]) > MaxSessionsPerUser
         /\ Authenticate(UsernameOf(id), PasswordOf(id), NoFailure).err = "nil")
        => \E k \in 1..MaxSID :
               ZCard(SequentialLogins(Stores, id, k).user_sess[id]) <= MaxSessionsPerUser

TearingDown(p) == procs[p].op = "ban" /\ procs[p].pc \in {"kick", "kicking"}

\* C23: BanUser sets the durable flag, then the Redis marker, then kicks the
\* sessions: while a ban is tearing sessions down both signals are set, a
\* login that makes its ban check then returns ErrUserBanned, and no caller
\* gets past the users row into a login.
C23_BanSignalsBeforeTeardown ==
    /\ [](\A p \in Procs : TearingDown(p) =>
            LET id == procs[p].uid IN
            /\ users[id].is_banned
            /\ id \in banned_user
            /\ \A password \in Passwords :
                   Authenticate(UsernameOf(id), password, NoFailure).err = "ErrUserBanned")
    /\ [][\A p, q \in Procs :
            (TearingDown(p) /\ procs[q] = Idle) => procs'[q].op # "login"]_vars

\* A ban that has kicked one session and has another to kick, after a login
\* was turned away by the durable flag.
C23_Witness ==
    \E p \in Procs :
        /\ procs[p].op = "ban" /\ procs[p].pc = "kicking" /\ procs[p].todo # <<>>
        /\ \E s \in DOMAIN sessions : sessions[s].revoked_by = <<"admin:kick">>
        /\ \E i \in 1..Len(auditTasks) : auditTasks[i].reason = "banned_db"

HasExpireTask(s) == \E task \in expireTasks : task.session_id = s
SuccessAudits == {i \in 1..Len(auditTasks) : auditTasks[i].success}

\* C24: a login writes the index entry (with the hash), then the ledger row,
\* then schedules the session:expire task, then enqueues the success audit:
\* a session with a task has a ledger row, a session with a ledger row has had
\* its index entry written, there are no more success audits than tasks, and
\* a login in flight has done exactly the steps before its position.
C24_LoginOrder ==
    /\ \A task \in expireTasks :
           task.session_id \in DOMAIN sessions /\ task.session_id \in indexed
    /\ DOMAIN sessions \subseteq indexed
    /\ Cardinality(SuccessAudits) <= Cardinality(expireTasks)
    /\ \A p \in Procs : procs[p].op = "login" =>
           LET s == procs[p].sid IN
           /\ procs[p].pc = "create" => s \notin indexed
           /\ procs[p].pc = "ledger" => s \in indexed /\ s \notin DOMAIN sessions
           /\ procs[p].pc = "schedule" => s \in DOMAIN sessions /\ ~HasExpireTask(s)
           /\ procs[p].pc = "audit" => HasExpireTask(s)

\* One login is about to enqueue its audit while another is about to insert
\* its ledger row.
C24_Witness ==
    \E p, q \in Procs :
        /\ At(p, "login", "audit")
        /\ At(q, "login", "ledger")
        /\ Cardinality(expireTasks) = 2

\* The actors a revocation is recorded for.
RevokeActors == {"user", "admin:kick", "system:limit", "system:expire"}
IsRevoked(tbl, s) == s \in DOMAIN tbl /\ tbl[s].revoked_at # NULL

\* C25: a ledger row is never deleted and its revocation is written at most
\* once: the first revocation records the time and the actor of the operation
\* (user for logout, admin:kick for a kick, system:limit for an eviction,
\* system:expire for the expiry job); revoking a revoked row, or a row that
\* does not exist, succeeds and changes nothing.
C25_RevokedOnce ==
    /\ [](\A s \in KnownSIDs :
            /\ \A by \in RevokeActors :
                   LET tbl == q_RevokeSession(sessions, s, by, now) IN
                   IF s \in DOMAIN sessions /\ ~IsRevoked(sessions, s)
                   THEN tbl = [sessions EXCEPT ![s].revoked_at = <<now>>,
                                               ![s].revoked_by = <<by>>]
                   ELSE tbl = sessions
            /\ \A id \in UserIDs :
                   LET out == LogoutResult(Stores, id, s, NoFailure, now)
                       kick == KickSessionResult(Stores, id, s, NoFailure, now)
                       job == SessionExpireResult(Stores, [session_id |-> s, user_id |-> id],
                                                  NoFailure, now)
                       lim == EnforceMaxSessions(Stores, id, NoFailure, now)
                   IN  /\ out.err = "nil"
                       /\ out.st.sessions = q_RevokeSession(sessions, s, "user", now)
                       /\ kick.err = "nil"
                       /\ kick.st.sessions = q_RevokeSession(sessions, s, "admin:kick", now)
                       /\ job.err = "nil"
                       /\ job.st.sessions \in
                              {sessions, q_RevokeSession(sessions, s, "system:expire", now)}
                       /\ s \in DOMAIN sess
                              => job.st.sessions = q_RevokeSession(sessions, s, "system:expire", now)
                       /\ lim.err = "nil"
                       /\ \/ lim.st.sessions = sessions
                          \/ \E old \in Members(user_sess[id]) :
                                 lim.st.sessions = q_RevokeSession(sessions, old, "system:limit", now))
    /\ [][\A s \in DOMAIN sessions :
            /\ s \in DOMAIN sessions'
            /\ IsRevoked(sessions, s) => sessions'[s] = sessions[s]
            /\ (~IsRevoked(sessions, s) /\ IsRevoked(sessions', s)) =>
                   /\ sessions'[s].revoked_by \in {<<by>> : by \in RevokeActors}
                   /\ sessions'[s].revoked_at = <<now>>
                   /\ sessions'[s] = [sessions[s] EXCEPT !.revoked_at = sessions'[s].revoked_at,
                                                         !.revoked_by = sessions'[s].revoked_by]]_vars

\* A row revoked by an eviction and a row revoked by a logout, both in an
\* earlier second, with the session:expire task of one of them handled since.
C25_Witness ==
    \E s1, s2 \in DOMAIN sessions :
        /\ sessions[s1].revoked_by = <<"system:limit">>
        /\ sessions[s2].revoked_by = <<"user">>
        /\ sessions[s1].revoked_at = <<0>> /\ sessions[s2].revoked_at = <<0>>
        /\ now = 1
        /\ Runs(expireRuns, s2) >= 1

\* C26: KickAllSessions kicks every member of the index: when the kick of one
\* member fails the call reports it and the other members are kicked all the
\* same; with no failure the index is empty afterwards and no session that
\* was in it is valid.
C26_KickAllKicksEveryMember ==
    \A id \in UserIDs :
        LET members == Members(user_sess[id])
            all == KickAllSessionsResult(Stores, id, NoFailure, now)
        IN  /\ all.err = "nil"
            /\ all.st.user_sess[id] = {}
            /\ \A s \in members : ~ValidIn(all.st, id, s) /\ s \notin DOMAIN all.st.sess
            /\ \A m \in members :
                   LET r == KickAllSessionsResult(Stores, id, [at |-> "Exec", member |-> m], now)
                   IN  /\ r.err # "nil"
                       /\ Members(r.st.user_sess[id]) = {m}
                       /\ \A s \in members \ {m} :
                              /\ ~ValidIn(r.st, id, s)
                              /\ s \notin DOMAIN r.st.sess
                              /\ s \in DOMAIN sessions => IsRevoked(r.st.sessions, s)

\* KickAllSessions failed on the member it kicked first and kicked the one
\* after it: the first is still valid, the second was revoked by admin:kick.
C26_Witness ==
    \E id \in UserIDs : \E s1, s2 \in issued :
        /\ Members(user_sess[id]) = {s1}
        /\ Valid(id, s1)
        /\ IsRevoked(sessions, s2)
        /\ sessions[s2].revoked_by = <<"admin:kick">>
        /\ sessions[s2].revoked_at = <<now>>
        /\ s1 \in DOMAIN sessions
        /\ ~IsRevoked(sessions, s1)
        /\ sessions[s1].created_at = sessions[s2].created_at
        /\ s1 < s2

\* C27: ListActiveSessions returns, without an error, exactly the sessions of
\* the user's index that still have their hash, each once and with the ip and
\* user agent of its hash; a member whose hash expired or was deleted is left
\* out; and the request that lists changes nothing in the stores.
C27_ListsSessionsWithRecord ==
    /\ [](\A id \in UserIDs :
            LET l == ListActiveSessions(Stores, id, NoFailure)
                listed == {l.sessions[i].session_id : i \in 1..Len(l.sessions)}
            IN  /\ l.err = "nil"
                /\ listed = {s \in Members(user_sess[id]) : s \in DOMAIN sess}
                /\ Len(l.sessions) = Cardinality(listed)
                /\ \A i \in 1..Len(l.sessions) :
                       LET e == l.sessions[i] IN
                       /\ e.ip = sess[e.session_id].fields.ip
                       /\ e.user_agent = sess[e.session_id].fields.user_agent)
    /\ [][(response' # response /\ response'.handler = "ListUserSessions") =>
            /\ UNCHANGED <<durable, redis, asynq>>
            /\ response'.status = 200
            /\ response'.sessions =
                   ListActiveSessions(Stores, response'.userID, NoFailure).sessions]_vars

\* The list was answered with one session while the index held two: the
\* hash of the other had expired.
C27_Witness ==
    /\ response.handler = "ListUserSessions"
    /\ response.status = 200
    /\ Len(response.sessions) = 1
    /\ ZCard(user_sess[response.userID]) = 2
    /\ Cardinality(DOMAIN sess) = 1

\* Whether a header is Bearer (in any case) with a token.
IsBearer(authHeader) == Len(authHeader) = 2 /\ authHeader[1] \in {"Bearer", "bearer", "BEARER"}

\* C28: the protected handler runs, with the token's user id and session id
\* in the context, exactly when the header is a Bearer token that Parse
\* accepts, that carries a session id, and for which IsSessionValid returns
\* true and no error; every other request is answered 401, reaches no handler
\* and changes no store.
C28_HandlerOnlyForValidSession ==
    /\ [](\A authHeader \in AuthHeaders(HeldTokens), f \in {NoFailure, Fail("HGetAll")} :
            LET m == AuthJWTMiddleware(authHeader, f)
                parsed == IF IsBearer(authHeader) /\ authHeader[2] # Blank
                          THEN Parse(authHeader[2]) ELSE NoClaims
                v == IsSessionValid(parsed.UserID, parsed.SessionID, f)
            IN  /\ m.next <=> (/\ parsed.err = "nil"
                               /\ parsed.SessionID # NoSID
                               /\ v.err = "nil"
                               /\ v.ok)
                /\ m.next => m.userID = parsed.UserID /\ m.sessionID = parsed.SessionID
                /\ ~m.next => m.status = 401)
    /\ [][response' # response =>
            /\ response'.handler \in {"Me", "Logout"} =>
                   /\ Valid(response'.userID, response'.sessionID)
                   /\ response'.sessionID \in DOMAIN sessions
                   /\ Parse(IssuedToken(response'.sessionID)).err = "nil"
                   /\ response'.userID = sessions[response'.sessionID].user_id
            /\ response'.status = 401 =>
                   /\ response'.handler = ""
                   /\ UNCHANGED <<durable, redis, asynq>>]_vars

\* The logout handler ran for a session, and revoked it for the user.
C28_Witness ==
    /\ response.handler = "Logout"
    /\ response.status = 200
    /\ response.sessionID \in DOMAIN sessions
    /\ sessions[response.sessionID].revoked_by = <<"user">>
    /\ ~Valid(response.userID, response.sessionID)

\* The seconds an expiry can fall on.
Instants == 0..(MaxTick + SessionTTLSeconds)

\* C29: Parse returns the user id and session id a token was generated for
\* at every second before the token's expiry and rejects the token from that
\* second on; the token of the login response carries the expiry of the
\* session's hash, so the token of an expired session is rejected.
C29_TokenRoundTrip ==
    /\ \A userID \in UserIDs, sessionID \in SessionIDs, expiresAt \in Instants, t \in Instants :
           LET p == ParseAt(GenerateWithSession(userID, sessionID, expiresAt), t) IN
           IF t < expiresAt
           THEN p.err = "nil" /\ p.UserID = userID /\ p.SessionID = sessionID
           ELSE p.err # "nil"
    /\ \A id \in UserIDs, meta \in LoginMetas, newSID \in FreshSIDs :
           LET r == LoginResult(UsernameOf(id), PasswordOf(id), meta, newSID, NoFailure)
               tokenStr == LoginResponse(r).body.access_token
           IN  r.err = "nil" =>
                   /\ tokenStr = GenerateWithSession(id, newSID, r.st.sess[newSID].expireAt)
                   /\ Parse(tokenStr).SessionID = newSID
                   /\ \A t \in Instants :
                          ParseAt(tokenStr, t).err = "nil" <=> t < r.st.sess[newSID].expireAt
    /\ \A s \in DOMAIN sessions :
           /\ s \in DOMAIN sess =>
                  /\ Parse(IssuedToken(s)).err = "nil"
                  /\ Parse(IssuedToken(s)).UserID = sessions[s].user_id
                  /\ Parse(IssuedToken(s)).SessionID = s
           /\ now >= sessions[s].expires_at =>
                  s \notin DOMAIN sess /\ Parse(IssuedToken(s)).err # "nil"

\* The token of an expired session is rejected while the token of a later
\* session of the user is accepted.
C29_Witness ==
    \E s1, s2 \in DOMAIN sessions :
        /\ now >= sessions[s1].expires_at
        /\ Parse(IssuedToken(s1)).err # "nil"
        /\ s2 \in DOMAIN sess
        /\ Parse(IssuedToken(s2)).err = "nil"

\* C30: with an admin key configured, a request passes the admin middleware
\* exactly when its X-Admin-Token is that key, and is answered 403 otherwise,
\* reaching no handler and changing no store; with no key configured every
\* request passes.
C30_AdminKeyGuardsHandlers ==
    /\ [](\A adminKey \in AdminKeys, token \in AdminTokens :
            LET m == AdminAPIKeyMiddleware(adminKey, token) IN
            /\ adminKey = "" => m.next
            /\ adminKey # "" => (m.next <=> token = adminKey)
            /\ ~m.next => m.status = 403)
    /\ [][(response' # response /\ response'.status = 403) =>
                   /\ adminAPIKey # ""
                   /\ response'.handler = ""
                   /\ UNCHANGED <<durable, redis, asynq>>]_vars

\* With a key configured, an admin request was refused after another had
\* kicked the user's sessions.
C30_Witness ==
    /\ adminAPIKey = "dev-admin"
    /\ response.status = 403
    /\ \E s \in DOMAIN sessions : sessions[s].revoked_by = <<"admin:kick">>

\* The entries of an index that no other entry precedes: lower score, or the
\* same score and a lower member.
Oldest(z) ==
    {e \in z : \A o \in z \ {e} :
        e.score < o.score \/ (e.score = o.score /\ e.member < o.member)}

C33_StoreFailuresKeptApart ==
    \A id \in UserIDs, s \in KnownSIDs :
        /\ \A r \in {LogoutResult(Stores, id, s, Fail("Exec"), now),
                     KickSessionResult(Stores, id, s, Fail("Exec"), now)} :
            /\ r.err # "nil"
            /\ r.st = Stores
        /\ \A r \in {LogoutResult(Stores, id, s, Fail("Revoke"), now),
                     KickSessionResult(Stores, id, s, Fail("Revoke"), now)} :
            /\ r.err = "nil"
            /\ s \notin DOMAIN r.st.sess
            /\ s \notin Members(r.st.user_sess[id])
            /\ ~ValidIn(r.st, id, s)
            /\ r.st.sessions = sessions

\* A session was removed from Redis before its expiry while its ledger row
\* stayed unrevoked: the RevokeSession of the removal had failed.
C33_Witness ==
    \E s \in DOMAIN sessions :
        /\ ~IsRevoked(sessions, s)
        /\ now < sessions[s].expires_at
        /\ s \notin DOMAIN sess
        /\ s \notin Members(user_sess[sessions[s].user_id])

\* C34: the login:audit handler appends one row to login_events, or nothing
\* when its insert fails, and touches no hash, index, ban marker, user row or
\* ledger row; no step of a login, of the handler or of the clock changes or
\* removes a row that login_events already holds.
C34_AuditOnlyAppends ==
    /\ [](\A i \in 1..Len(auditTasks), f \in {NoFailure, Fail("Insert")} :
            LET r == LoginAuditResult(login_events, auditTasks[i], f, now) IN
            IF r.err = "nil"
            THEN /\ Len(r.tbl) = Len(login_events) + 1
                 /\ SubSeq(r.tbl, 1, Len(login_events)) = login_events
            ELSE r.tbl = login_events)
    /\ [][/\ Len(login_events') >= Len(login_events)
          /\ SubSeq(login_events', 1, Len(login_events)) = login_events
          /\ login_events' # login_events =>
                 /\ Len(login_events') = Len(login_events) + 1
                 /\ UNCHANGED <<users, sessions, redis>>]_vars

\* Two audit rows were inserted while the user had a session.
C34_Witness ==
    /\ Len(login_events) = 2
    /\ login_events[1] # login_events[2]
    /\ \E id \in UserIDs : \E s \in Members(user_sess[id]) : Valid(id, s)

\* C35: with sequential calls and no store failure, the index of a user never
\* holds more than MaxSessionsPerUser entries and no more than that many
\* sessions of the user are valid.
C35_AtMostMaxSessions ==
    \A id \in UserIDs :
        /\ ZCard(user_sess[id]) <= MaxSessionsPerUser
        /\ Cardinality({s \in KnownSIDs : Valid(id, s)}) <= MaxSessionsPerUser

\* A user holds the maximum of valid sessions after an eviction.
C35_Witness ==
    \E id \in UserIDs :
        /\ ZCard(user_sess[id]) = MaxSessionsPerUser
        /\ Cardinality({s \in KnownSIDs : Valid(id, s)}) = MaxSessionsPerUser
        /\ \E s \in DOMAIN sessions : sessions[s].revoked_by = <<"system:limit">>

\* C36: once a ban of a user has returned, and no unban has been called, no
\* session of the user is valid, whatever logins overlapped with the ban.
C36_NoValidSessionAfterBan ==
    \A id \in UserIDs :
        (/\ users[id].is_banned
         /\ id \in banned_user
         /\ \A p \in Procs : ~(procs[p].op = "ban" /\ procs[p].uid = id))
        => \A s \in issued : ~Valid(id, s)

\* Administrators ban and unban the user while the user logs in, each store
\* access of each caller a step of its own.
UnbanSteps(p) ==
    \/ \E userID \in OneUser : UnbanCalled(p, userID)
    \/ UnbanFlag(p)
    \/ UnbanMarker(p)

NextB ==
    \/ \E p \in Procs : LoginSteps(p)
    \/ \E p \in Procs : BanSteps(p)
    \/ \E p \in Procs : UnbanSteps(p)

SpecB == InitW /\ [][NextB]_vars

BanInFlight(id) == \E p \in Procs : procs[p].op \in {"ban", "unban"} /\ procs[p].uid = id

\* C37: whenever no BanUser and no UnbanUser call for a user is in flight, the
\* Redis marker banned_user:{uid} exists exactly when users.is_banned is set,
\* also after a ban and an unban of the user that overlapped.
C37_MarkerMirrorsFlag ==
    \A id \in UserIDs :
        ~BanInFlight(id) => (id \in banned_user <=> users[id].is_banned)

\* C38: Logout and KickSession called for a user leave a session of another
\* user alone: it stays valid for its owner and in its owner's index, and its
\* ledger row stays unrevoked.
C38_OnlyOwnSessions ==
    \A id \in UserIDs, owner \in UserIDs, s \in issued :
        (id # owner /\ Valid(owner, s)) =>
            \A r \in {LogoutResult(Stores, id, s, NoFailure, now),
                      KickSessionResult(Stores, id, s, NoFailure, now)} :
                /\ ValidIn(r.st, owner, s)
                /\ s \in Members(r.st.user_sess[owner])
                /\ s \in DOMAIN sessions => ~IsRevoked(r.st.sessions, s)

\* C40: a login that returns the error of its Redis transaction (step 5) has
\* invalidated no session: each session of the user valid before the call is
\* valid after it.
C40_FailedLoginKeepsSessions ==
    \A id \in UserIDs, meta \in LoginMetas, newSID \in FreshSIDs :
        LET r == LoginResult(UsernameOf(id), PasswordOf(id), meta, newSID, Fail("CreateExec"))
        IN  r.err # "nil" =>
                \A s \in issued : Valid(id, s) => ValidIn(r.st, id, s)

\* Both users log in and out while time passes; the ledger write of a login
\* or of a logout may fail.
NextT ==
    \/ LoginCall(UserIDs, {NoFailure, Fail("CreateSession")})
    \/ LogoutCall(UserIDs, {NoFailure, Fail("Revoke")})
    \/ Tick

SpecT == Init /\ [][NextT]_vars

IndexesOf(s) == {id \in UserIDs : s \in Members(user_sess[id])}

\* C39: each session id is in the index of at most one user; where a hash
\* and an index entry of a session id both exist the hash's user_id is the
\* user of that index and the entry's score is the hash's created_at; a ledger
\* row of the session id carries the user id of the index and of the hash,
\* and the hash's expiry.
C39_SessionIDsNotShared ==
    \A s \in SessionIDs :
        /\ Cardinality(IndexesOf(s)) <= 1
        /\ \A id \in IndexesOf(s) :
               /\ s \in DOMAIN sess =>
                      /\ sess[s].fields.user_id = stringFromInt64(id)
                      /\ \A x \in user_sess[id] :
                             x.member = s => x.score = sess[s].fields.created_at
               /\ s \in DOMAIN sessions => sessions[s].user_id = id
        /\ (s \in DOMAIN sess /\ s \in DOMAIN sessions) =>
               /\ sess[s].fields.user_id = stringFromInt64(sessions[s].user_id)
               /\ sess[s].fields.expires_at = sessions[s].expires_at
               /\ sess[s].fields.created_at = sessions[s].created_at

\* Both users hold a valid session, indexed and in the ledger.
C39_Witness ==
    \E a, b \in DOMAIN sess :
        /\ a \in Members(user_sess[1]) /\ a \in DOMAIN sessions /\ Valid(1, a)
        /\ b \in Members(user_sess[2]) /\ b \in DOMAIN sessions /\ Valid(2, b)

\* The service configured without a maximum: MAX_SESSIONS_PER_USER zero or
\* negative.  One user logs in and out, any store access of a login may fail.
Unlimited == {0, -1}
InitU ==
    /\ users = [id \in UserIDs |->
                   [username |-> UsernameOf(id),
                    password_hash |-> bcryptGenerate(PasswordOf(id)),
                    is_banned |-> FALSE]]
    /\ sessions = <<>>
    /\ login_events = <<>>
    /\ sess = <<>>
    /\ user_sess = [id \in UserIDs |-> {}]
    /\ banned_user = {}
    /\ asynqClient = FALSE
    /\ expireTasks = {}
    /\ auditTasks = <<>>
    /\ now = 0
    /\ issued = {}
    /\ streak = NoStreak
    /\ banHistory = [id \in UserIDs |-> "none"]
    /\ expireRuns = <<>>
    /\ auditRuns = <<>>
    /\ indexed = {}
    /\ procs = [p \in Procs |-> Idle]
    /\ adminAPIKey = "dev-admin"
    /\ maxSessionsPerUser \in Unlimited
    /\ response = NoResponse

NextU ==
    \/ LoginCall(OneUser, LoginFailures \cup {NoFailure})
    \/ LogoutCall(OneUser, {NoFailure})
    \/ Tick

SpecU == InitU /\ [][NextU]_vars

EnforcementFailures == {Fail(at) : at \in {"ZCard", "ZRange", "EvictExec", "EvictRevoke"}}

\* C32: with a maximum of zero or less, Login does no enforcement: step 3
\* returns nil and changes nothing whether or not ZCARD, ZRANGE, the evicting
\* transaction or the revocation would fail, so the count is never read and
\* nothing is evicted or revoked; a successful login keeps every hash, index
\* entry and ledger row and adds one entry to the user's index; no ledger row
\* is ever revoked by system:limit.
C32_NoEnforcementWithoutMaximum ==
    maxSessionsPerUser <= 0 =>
        /\ \A s \in DOMAIN sessions : sessions[s].revoked_by # <<"system:limit">>
        /\ \A id \in UserIDs, f \in EnforcementFailures \cup {NoFailure} :
               /\ EnforceMaxSessions(Stores, id, f, now) = [err |-> "nil", st |-> Stores]
               /\ \A meta \in LoginMetas, newSID \in FreshSIDs :
                      LET r == LoginResult(UsernameOf(id), PasswordOf(id), meta, newSID, f) IN
                      /\ r.err = "nil"
                      /\ ZCard(r.st.user_sess[id]) = ZCard(user_sess[id]) + 1
                      /\ user_sess[id] \subseteq r.st.user_sess[id]
                      /\ \A s \in DOMAIN sess : s \in DOMAIN r.st.sess /\ r.st.sess[s] = sess[s]
                      /\ \A s \in DOMAIN sessions : r.st.sessions[s] = sessions[s]

\* Without a maximum a user holds more valid sessions than the default
\* maximum allows, all in the index.
C32_Witness ==
    /\ maxSessionsPerUser <= 0
    /\ \E id \in UserIDs :
           /\ ZCard(user_sess[id]) > MaxSessionsPerUser
           /\ \A s \in Members(user_sess[id]) : Valid(id, s)

====
